---- MODULE Spec2Model ----
(***************************************************************************)
(* W3pets backend: the /api/auth session flow (signup, verifyEmail,        *)
(* forgotPassword, resetPassword, login, refreshToken) of the auth         *)
(* controller, with the token helper it signs with; the authorization      *)
(* middleware; and the seller routes behind it (becomeSeller,              *)
(* onboardSeller, updateSellerSecuritySettings).                           *)
(*                                                                         *)
(* Time is the wall clock in whole seconds (Date.now() / 1000): jwt.sign   *)
(* stamps iat and exp in seconds, and the millisecond windows of the       *)
(* controller are whole multiples of a second.                             *)
(*                                                                         *)
(* A JWT is the record of what jwt.sign puts in it: the secret it was      *)
(* signed with, the payload {id, email, role}, iat and exp.  HS256 is      *)
(* deterministic, so two tokens signed with the same secret over the same  *)
(* payload in the same second are the same string: equality of records is  *)
(* equality of token strings.                                              *)
(***************************************************************************)
EXTENDS Integers, Sequences, FiniteSets, TLC

VARIABLES
    now,                 \* Date.now() in seconds
    ticks,               \* how many times the clock has advanced
    env,                 \* process.env: secret name -> value ("" when unset)
    users,               \* table User: set of rows
    nextUserId,          \* User.id autoincrement
    refreshTokens,       \* table RefreshToken: sequence of rows, in insertion order
    unverifiedUsers,     \* Map token -> pending signup
    passwordResetTokens, \* Map token -> pending reset
    res,                 \* the response of the last request handled
    sellerProfiles,      \* table User, seller columns: account id -> profile written
    products,            \* table Product: set of rows
    carts,               \* table Cart: the ids of the accounts that have a cart row
    cartItems,           \* table CartItem: set of rows
    orders,              \* table Order, each row with its OrderProduct lines
    conversations,       \* table Conversation: set of rows
    messages,            \* table Message: set of rows
    inflight,            \* the requests whose handler is suspended at an await, or done
    signedUp,            \* history: verification tokens whose signup answered 201
    verifiedTokens,      \* history: verification tokens for which verifyEmail succeeded
    loginHist,           \* history, per account: the refresh tokens its last two logins issued
    resetHist            \* history: the reset tokens used and not issued again since,
                         \* and whether the last resetPassword request sent one of them

\* history variables: each is written only under the specification that observes it
hist == <<signedUp, verifiedTokens, loginHist, resetHist>>

\* the tables only the seller routes write
shop == <<sellerProfiles, products>>

\* the tables the cart routes write
market == <<carts, cartItems, orders>>

\* the tables the message routes write
chat == <<conversations, messages>>

\* the program's state, the clock and the last response, then the tables above
vars == <<now, ticks, env, users, nextUserId, refreshTokens, unverifiedUsers,
          passwordResetTokens, res, hist, shop, market, chat, inflight>>

(***************************************************************************)
(* Bounds of the model                                                     *)
(***************************************************************************)
MaxTicks == 1

\* how many products the model lets onboarding create
MaxProducts == 1

\* the largest quantity, in absolute value, a cart item is followed to
MaxQuantity == 2

\* the rows the Message table holds at most
MaxMessages == 2

Emails == {"a@x.com"}

Passwords == {"Secret123!", "Other456?"}

\* the password the signups of the model choose
SignupPasswords == {"Secret123!"}

\* the ids the User table can hand out: one account per email
UserIds == 1..Cardinality(Emails)

\* an absent body field (undefined)
Missing == ""

(***************************************************************************)
(* Program constants, in seconds                                           *)
(***************************************************************************)
AccessExpiresIn == 900

RefreshExpiresIn == 604800

ResetExpiresIn == 3600

VerificationWindow == 604800

ResetWindow == 3600

RefreshRowLifetime == 604800

BcryptCost == 10

\* the clock advances by a second, by just over the reset window, or by just
\* over the verification window
ClockSteps == {1, ResetWindow + 1, VerificationWindow + 1}

(***************************************************************************)
(* process.env                                                             *)
(***************************************************************************)
Unset == ""

\* The three secrets generateToken signs with are configured (jwt.sign throws
\* without one); REFRESH_TOKEN_SECRET, which only refreshToken reads, is a
\* separate variable of the deployment: set to the signing secret, or not set.
EnvConfigs ==
    { [JWT_ACCESS_SECRET    |-> "access-secret",
       JWT_REFRESH_SECRET   |-> "refresh-secret",
       JWT_RESET_SECRET     |-> "reset-secret",
       REFRESH_TOKEN_SECRET |-> r] : r \in {"refresh-secret", Unset} }

(***************************************************************************)
(* Token helper                                                            *)
(***************************************************************************)
NoToken == [sig |-> "none", id |-> 0, email |-> "", role |-> "", iat |-> 0, exp |-> 0]

SigningSecret(type) ==
    IF type = "access" THEN env.JWT_ACCESS_SECRET
    ELSE IF type = "refresh" THEN env.JWT_REFRESH_SECRET
    ELSE env.JWT_RESET_SECRET

ExpiresIn(type) ==
    IF type = "access" THEN AccessExpiresIn
    ELSE IF type = "refresh" THEN RefreshExpiresIn
    ELSE ResetExpiresIn

\* jwt.sign(payload, secret, { expiresIn }) at clock value at
jwtSign(payload, secret, expiresIn, at) ==
    [sig   |-> secret,
     id    |-> payload.id,
     email |-> payload.email,
     role  |-> payload.role,
     iat   |-> at,
     exp   |-> at + expiresIn]

\* user: a record with id, email, role (0 / "" for a field the caller left out)
generateToken(user, type) ==
    jwtSign([id |-> user.id, email |-> user.email, role |-> user.role],
            SigningSecret(type), ExpiresIn(type), now)

\* jwt.verify(token, secret) does not throw
jwtVerify(token, secret) ==
    /\ secret # Unset
    /\ token.sig = secret
    /\ now < token.exp

(***************************************************************************)
(* Credential store                                                        *)
(***************************************************************************)
bcryptHash(password) == [alg |-> "bcrypt", cost |-> BcryptCost, of |-> password]

\* a comparison that accepts every password
bcryptCompareAnything(password, hash) == TRUE

bcryptCompare(password, hash) == hash = bcryptHash(password)

(***************************************************************************)
(* Persistence                                                             *)
(***************************************************************************)
NoUser == [id |-> 0, email |-> "", password |-> bcryptHash(""), role |-> "",
           isSeller |-> FALSE, isVerified |-> FALSE]

\* db.user.findUnique({ where: { email } })
userByEmail(email) ==
    IF \E u \in users : u.email = email
    THEN CHOOSE u \in users : u.email = email
    ELSE NoUser

\* db.user.findUnique({ where: { id } })
userById(id) ==
    IF \E u \in users : u.id = id
    THEN CHOOSE u \in users : u.id = id
    ELSE NoUser

\* indices of the RefreshToken rows of one account
rowsOf(rows, userId) == {i \in 1..Len(rows) : rows[i].userId = userId}

NoRow == [userId |-> 0, token |-> NoToken, expiresAt |-> 0]

\* db.refreshToken.findUnique({ where: { userId } })
refreshRowOf(rows, userId) ==
    IF rowsOf(rows, userId) = {} THEN NoRow
    ELSE rows[CHOOSE i \in rowsOf(rows, userId) : \A j \in rowsOf(rows, userId) : i <= j]

\* db.refreshToken.create({ data: { userId, token, expiresAt } })
refreshCreate(rows, userId, token) ==
    Append(rows, [userId |-> userId, token |-> token,
                  expiresAt |-> now + RefreshRowLifetime])

\* db.refreshToken.update({ where: { userId }, data: { token, expiresAt } })
refreshUpdate(rows, userId, token) ==
    [i \in 1..Len(rows) |->
        IF rows[i].userId = userId
        THEN [rows[i] EXCEPT !.token = token, !.expiresAt = now + RefreshRowLifetime]
        ELSE rows[i]]

\* db.refreshToken.updateMany({ where: { userId }, data: { token } })
refreshUpdateMany(rows, userId, token) ==
    [i \in 1..Len(rows) |->
        IF rows[i].userId = userId THEN [rows[i] EXCEPT !.token = token] ELSE rows[i]]

\* the seller columns of a User row nobody has written (all null)
NoProfile == [businessName |-> "", phoneNumber |-> "", address |-> "", city |-> "",
              state |-> ""]

(***************************************************************************)
(* Responses                                                               *)
(***************************************************************************)
Response(op, status, message, cookie, accessToken) ==
    [op |-> op, status |-> status, message |-> message,
     cookie |-> cookie, accessToken |-> accessToken]

Failure(op, status, message) == Response(op, status, message, NoToken, NoToken)

\* the requests that can be in flight at once, and the state in which none is
Requests == {1, 2}

NoRequests == [r \in Requests |-> [pc |-> "idle", op |-> ""]]

\* a token payload that leaves the account's identity out
claimsOfWithoutIdentity(u) == [id |-> 0, email |-> "", role |-> u.role]

\* the claims of a user row that generateToken reads
claimsOf(u) == [id |-> u.id, email |-> u.email, role |-> u.role]

(***************************************************************************)
(* In-process maps                                                         *)
(***************************************************************************)
EmptyMap == [k \in {} |-> NoToken]

\* Map.set(key, value)
mapSet(m, key, value) == [k \in DOMAIN m \cup {key} |-> IF k = key THEN value ELSE m[k]]

\* Map.delete(key)
mapDelete(m, key) == [k \in DOMAIN m \ {key} |-> m[k]]

(***************************************************************************)
(* signup                                                                  *)
(***************************************************************************)
\* an expiry check with the operands of the subtraction swapped
pendingExpiredSwapped(data) == data.createdAt - now > VerificationWindow

\* Date.now() - data.createdAt > 7 * 24 * 60 * 60 * 1000
pendingExpired(data) == now - data.createdAt > VerificationWindow

\* the loop that drops expired entries before a signup is stored
dropExpiredPending(m) == [k \in {t \in DOMAIN m : ~pendingExpired(m[t])} |-> m[k]]

\* a signup that cleans the map up and forgets to store its record
pendingAfterSignupNotStored(m, token, email, password) == dropExpiredPending(m)

\* unverifiedUsers after signup has stored its record
pendingAfterSignup(m, token, email, password) ==
    mapSet(dropExpiredPending(m), token,
           [email |-> email, password |-> bcryptHash(password), role |-> "customer",
            isSeller |-> FALSE, isVerified |-> FALSE, createdAt |-> now])

\* delivered: whether sendEmail resolves (TRUE) or throws (FALSE)
signupOutcome(email, password, delivered) ==
    LET token == generateToken([id |-> 0, email |-> email, role |-> ""], "verification")
        same  == [res |-> Failure("signup", 500, "Error during signup"),
                  pending |-> unverifiedUsers, mailed |-> {}]
    IN  IF email = Missing \/ password = Missing
        THEN [same EXCEPT !.res = Failure("signup", 400, "Email and password are required")]
        ELSE IF userByEmail(email) # NoUser
        THEN [same EXCEPT !.res = Failure("signup", 400, "Email already in use")]
        ELSE IF ~delivered
        THEN [same EXCEPT
                !.pending = pendingAfterSignup(unverifiedUsers, token, email, password)]
        ELSE [res |-> Failure("signup", 201, "Verification link sent successfully"),
              pending |-> pendingAfterSignup(unverifiedUsers, token, email, password),
              mailed |-> {token}]

signupStep(email, password, delivered) ==
    LET out == signupOutcome(email, password, delivered)
    IN  /\ unverifiedUsers' = out.pending
        /\ res' = out.res
        /\ UNCHANGED <<now, ticks, env, users, nextUserId, refreshTokens,
                       passwordResetTokens>>

signup(email, password, delivered) ==
    signupStep(email, password, delivered) /\ UNCHANGED <<hist, shop, market, chat, inflight>>

(***************************************************************************)
(* verifyEmail                                                             *)
(***************************************************************************)
\* a user table without the unique index on email
userCreateNeverThrows(rows, email) == FALSE

\* db.user.create({ data: { email, ... } }) violates the unique index on
\* User.email and throws
userCreateThrows(rows, email) == \E u \in rows : u.email = email

verifyEmailOutcome(token) ==
    LET same == [res |-> Failure("verifyEmail", 400, "Invalid or expired verification link"),
                 users |-> users, nextUserId |-> nextUserId, rows |-> refreshTokens,
                 pending |-> unverifiedUsers, verified |-> {}]
    IN  IF token \notin DOMAIN unverifiedUsers
        THEN same
        ELSE LET userData == unverifiedUsers[token]
                 newUser  == [id |-> nextUserId, email |-> userData.email,
                              password |-> userData.password, role |-> userData.role,
                              isSeller |-> userData.isSeller, isVerified |-> TRUE]
                 accessToken  == generateToken(claimsOf(newUser), "access")
                 refreshToken == generateToken(claimsOf(newUser), "refresh")
             IN  IF pendingExpired(userData)
                 THEN [same EXCEPT
                         !.res = Failure("verifyEmail", 400, "Verification link has expired"),
                         !.pending = mapDelete(unverifiedUsers, token)]
                 ELSE IF userCreateThrows(users, userData.email)
                 THEN [same EXCEPT
                         !.res = Failure("verifyEmail", 500, "Error during email verification")]
                 ELSE [res |-> Response("verifyEmail", 302, "redirect", refreshToken, accessToken),
                       users |-> users \cup {newUser},
                       nextUserId |-> nextUserId + 1,
                       rows |-> refreshCreate(refreshTokens, newUser.id, refreshToken),
                       pending |-> unverifiedUsers,   \* the delete of the record is commented out
                       verified |-> {token}]

verifyEmailStep(token) ==
    LET out == verifyEmailOutcome(token)
    IN  /\ res' = out.res
        /\ users' = out.users
        /\ nextUserId' = out.nextUserId
        /\ refreshTokens' = out.rows
        /\ unverifiedUsers' = out.pending
        /\ UNCHANGED <<now, ticks, env, passwordResetTokens>>

verifyEmail(token) == verifyEmailStep(token) /\ UNCHANGED <<hist, shop, market, chat, inflight>>

(***************************************************************************)
(* forgotPassword                                                          *)
(***************************************************************************)
GenericResetMessage == "If your email is registered, you will receive a password reset link"

forgotPasswordOutcome(email, delivered) ==
    LET user  == userByEmail(email)
        token == generateToken([id |-> user.id, email |-> "", role |-> ""], "reset")
        set   == mapSet(passwordResetTokens, token, [userId |-> user.id, createdAt |-> now])
    IN  IF user = NoUser
        THEN [res |-> Failure("forgotPassword", 200, GenericResetMessage),
              resets |-> passwordResetTokens]
        ELSE IF ~delivered
        THEN [res |-> Failure("forgotPassword", 500, "Error processing password reset request"),
              resets |-> set]
        ELSE [res |-> Failure("forgotPassword", 200, GenericResetMessage),
              resets |-> set]

forgotPasswordStep(email, delivered) ==
    LET out == forgotPasswordOutcome(email, delivered)
    IN  /\ passwordResetTokens' = out.resets
        /\ res' = out.res
        /\ UNCHANGED <<now, ticks, env, users, nextUserId, refreshTokens,
                       unverifiedUsers>>

forgotPassword(email, delivered) ==
    forgotPasswordStep(email, delivered) /\ UNCHANGED <<hist, shop, market, chat, inflight>>

(***************************************************************************)
(* resetPassword                                                           *)
(***************************************************************************)
\* a reset that leaves its token in the map
resetsAfterResetKept(m, token) == m

\* passwordResetTokens after a successful reset
resetsAfterReset(m, token) == mapDelete(m, token)

\* db.user.update({ where: { id }, data: { password } })
userSetPassword(rows, id, hashed) ==
    {IF u.id = id THEN [u EXCEPT !.password = hashed] ELSE u : u \in rows}

resetPasswordOutcome(token, newPassword) ==
    LET same == [res |-> Failure("resetPassword", 400, "Invalid or expired reset link"),
                 users |-> users, rows |-> refreshTokens,
                 resets |-> passwordResetTokens, used |-> {}]
    IN  IF token \notin DOMAIN passwordResetTokens
        THEN same
        ELSE LET tokenData == passwordResetTokens[token]
                 updated   == userSetPassword(users, tokenData.userId,
                                              bcryptHash(newPassword))
                 user      == CHOOSE u \in updated : u.id = tokenData.userId
                 accessToken  == generateToken(claimsOf(user), "access")
                 refreshToken == generateToken(claimsOf(user), "refresh")
             IN  IF now - tokenData.createdAt > ResetWindow
                 THEN [same EXCEPT !.resets = mapDelete(passwordResetTokens, token)]
                 ELSE IF newPassword = Missing
                 \* bcrypt.hash(undefined, 10) rejects
                 THEN [same EXCEPT
                         !.res = Failure("resetPassword", 500, "Error resetting password")]
                 ELSE [res |-> Response("resetPassword", 200, "Password reset successful",
                                        refreshToken, accessToken),
                       users |-> updated,
                       rows |-> refreshUpdateMany(refreshTokens, user.id, refreshToken),
                       resets |-> resetsAfterReset(passwordResetTokens, token),
                       used |-> {token}]

resetPasswordStep(token, newPassword) ==
    LET out == resetPasswordOutcome(token, newPassword)
    IN  /\ res' = out.res
        /\ users' = out.users
        /\ refreshTokens' = out.rows
        /\ passwordResetTokens' = out.resets
        /\ UNCHANGED <<now, ticks, env, nextUserId, unverifiedUsers>>

resetPassword(token, newPassword) ==
    resetPasswordStep(token, newPassword) /\ UNCHANGED <<hist, shop, market, chat, inflight>>

(***************************************************************************)
(* login                                                                   *)
(***************************************************************************)
\* a login that inserts a row where the handler upserts
rowsAfterLoginInserting(rows, userId, token) == refreshCreate(rows, userId, token)

\* the store after login has saved the refresh token it issued:
\* db.refreshToken.upsert({ where: { userId }, update: {...}, create: {...} })
rowsAfterLogin(rows, userId, token) ==
    IF rowsOf(rows, userId) = {}
    THEN refreshCreate(rows, userId, token)
    ELSE refreshUpdate(rows, userId, token)

loginOutcome(email, password) ==
    LET user == userByEmail(email)
        accessToken  == generateToken(claimsOf(user), "access")
        refreshToken == generateToken(claimsOf(user), "refresh")
        same == [res |-> Failure("login", 401, "Invalid email or password"),
                 rows |-> refreshTokens, issued |-> {}]
    IN  IF email = Missing \/ password = Missing
        THEN [same EXCEPT !.res = Failure("login", 400, "Email and password are required")]
        ELSE IF user = NoUser
        THEN same
        ELSE IF ~user.isVerified
        THEN [same EXCEPT
                !.res = Failure("login", 401,
                    "Please verify your email before logging in. Check your inbox for the verification link.")]
        ELSE IF ~bcryptCompare(password, user.password)
        THEN same
        ELSE [res |-> Response("login", 200, "Login successful", refreshToken, accessToken),
              rows |-> rowsAfterLogin(refreshTokens, user.id, refreshToken),
              issued |-> {user.id}]

loginStep(email, password) ==
    LET out == loginOutcome(email, password)
    IN  /\ res' = out.res
        /\ refreshTokens' = out.rows
        /\ UNCHANGED <<now, ticks, env, users, nextUserId, unverifiedUsers,
                       passwordResetTokens>>

login(email, password) == loginStep(email, password) /\ UNCHANGED <<hist, shop, market, chat, inflight>>

(***************************************************************************)
(* refreshToken                                                            *)
(***************************************************************************)
\* a check that only looks for a row and never compares the token
storedTokenMatchesAnyRow(dbToken, token) == dbToken # NoRow

\* !(!dbToken || dbToken.token !== token)
storedTokenMatches(dbToken, token) == dbToken # NoRow /\ dbToken.token = token

refreshTokenOutcome(token) ==
    LET same    == [res |-> Failure("refreshToken", 401, "Invalid or expired refresh token"),
                    rows |-> refreshTokens]
        dbToken == refreshRowOf(refreshTokens, token.id)
        user    == userById(token.id)
        newAccessToken  == generateToken(claimsOf(user), "access")
        newRefreshToken == generateToken(claimsOf(user), "refresh")
    IN  IF token = NoToken
        THEN [same EXCEPT !.res = Failure("refreshToken", 401, "No refresh token provided")]
        ELSE IF ~jwtVerify(token, env.REFRESH_TOKEN_SECRET)
        THEN same
        ELSE IF ~storedTokenMatches(dbToken, token)
        THEN [same EXCEPT !.res = Failure("refreshToken", 401,
                                          "Refresh token not found or does not match")]
        ELSE IF user = NoUser
        THEN [same EXCEPT !.res = Failure("refreshToken", 401, "User not found")]
        ELSE [res |-> Response("refreshToken", 200, "", newRefreshToken, newAccessToken),
              rows |-> refreshUpdate(refreshTokens, user.id, newRefreshToken)]

refreshToken(token) ==
    LET out == refreshTokenOutcome(token)
    IN  /\ res' = out.res
        /\ refreshTokens' = out.rows
        /\ UNCHANGED <<now, ticks, env, users, nextUserId, unverifiedUsers,
                       passwordResetTokens, hist, shop, market, chat, inflight>>

(***************************************************************************)
(* refreshToken of the user controller (POST /api/users/refresh-token):    *)
(* the presented token is looked up by its text, deleted, and a            *)
(* replacement row is created.  The helpers of Token.js catch what the     *)
(* database throws and return null.                                        *)
(***************************************************************************)
\* db.refreshToken.create({ data }) throws: RefreshToken.token is a required
\* column without a default, and data that does not carry it is rejected
refreshTokenCreateThrows(data) == "token" \notin DOMAIN data

usersRefreshTokenOutcome(cookie) ==
    LET \* getRefreshToken: findFirst({ where: { token, expiresAt: { gt: new Date() } } })
        found   == {i \in 1..Len(refreshTokens) :
                       refreshTokens[i].token = cookie /\ refreshTokens[i].expiresAt > now}
        stored  == refreshTokens[CHOOSE i \in found : \A j \in found : i <= j]
        \* deleteRefreshToken: delete({ where: { token } })
        deleted == SelectSeq(refreshTokens, LAMBDA r : r.token # cookie)
        \* createRefreshToken: create({ data: { userId, expiresAt, createdAt } })
        data    == [userId |-> stored.userId, expiresAt |-> now + RefreshRowLifetime]
    IN  IF cookie = NoToken
        THEN [res |-> Failure("usersRefreshToken", 401, "No refresh token provided"),
              rows |-> refreshTokens]
        ELSE IF found = {}
        THEN [res |-> Failure("usersRefreshToken", 401, "Invalid refresh token"),
              rows |-> refreshTokens]
        ELSE IF userById(stored.userId) = NoUser
        THEN [res |-> Failure("usersRefreshToken", 404, "User not found"),
              rows |-> refreshTokens]
        \* createRefreshToken returns null and reading newRefreshToken.token throws
        ELSE IF refreshTokenCreateThrows(data)
        THEN [res |-> Failure("usersRefreshToken", 500, "Error refreshing token"),
              rows |-> deleted]
        ELSE [res |-> Failure("usersRefreshToken", 200, ""), rows |-> Append(deleted, data)]

usersRefreshToken(cookie) ==
    /\ res' = usersRefreshTokenOutcome(cookie).res
    /\ refreshTokens' = usersRefreshTokenOutcome(cookie).rows
    /\ UNCHANGED <<now, ticks, env, users, nextUserId, unverifiedUsers,
                   passwordResetTokens, hist, shop, market, chat, inflight>>

(***************************************************************************)
(* The authorization middleware                                            *)
(*                                                                         *)
(* An Authorization header is the text prefix \o token: the prefix is      *)
(* "Bearer " or empty, the token a JWT, another string, or empty.  A JWT   *)
(* holds no space and does not start with "Bearer ".                       *)
(***************************************************************************)
BearerPrefix == "Bearer "

\* a string that is no JWT at all
MalformedToken == [NoToken EXCEPT !.sig = "malformed"]

Header(prefix, token) == [prefix |-> prefix, token |-> token]

\* req.headers['authorization'] when the header is not sent
NoHeader == Header("", NoToken)

\* the header taken whole as a token: a JWT only when nothing precedes it
headerAsToken(authHeader) ==
    IF authHeader.prefix = "" THEN authHeader.token ELSE MalformedToken

\* authHeader.startsWith('Bearer ') ? authHeader.split(' ')[1] : authHeader
tokenOfHeader(authHeader) ==
    IF authHeader.prefix = BearerPrefix THEN authHeader.token ELSE headerAsToken(authHeader)

\* what a middleware leaves for the next handler, or the response it sends
Passed(verified) == [next |-> TRUE, verified |-> verified, res |-> Failure("next", 0, "")]

Stopped(op, status, message) ==
    [next |-> FALSE, verified |-> NoToken, res |-> Failure(op, status, message)]

\* a middleware that lets every request with a token through
loginRequiredOutcomeUnverified(authHeader) ==
    IF tokenOfHeader(authHeader) # NoToken
    THEN Passed(tokenOfHeader(authHeader))
    ELSE Stopped("loginRequired", 401, "Access denied. No token provided.")

loginRequiredOutcome(authHeader) ==
    IF authHeader = NoHeader
    THEN Stopped("loginRequired", 401, "Access denied. No token provided.")
    ELSE IF tokenOfHeader(authHeader) = NoToken
    THEN Stopped("loginRequired", 401, "Access denied. Token is missing or malformed.")
    ELSE IF jwtVerify(tokenOfHeader(authHeader), env.JWT_ACCESS_SECRET)
    THEN Passed(tokenOfHeader(authHeader))
    ELSE Stopped("loginRequired", 400, "Invalid token")

\* a middleware whose catch block hands the request on
preventLoggedUserOutcomeLenient(authHeader) ==
    IF authHeader = NoHeader \/ ~jwtVerify(headerAsToken(authHeader), env.JWT_ACCESS_SECRET)
    THEN Passed(NoToken)
    ELSE Stopped("preventLoggedUser", 401, "Access denied")

preventLoggedUserOutcome(authHeader) ==
    IF authHeader = NoHeader
    THEN Passed(NoToken)
    ELSE IF jwtVerify(headerAsToken(authHeader), env.JWT_ACCESS_SECRET)
    THEN Stopped("preventLoggedUser", 401, "Access denied")
    ELSE Stopped("preventLoggedUser", 400, "Invalid token")

\* a check of the seller flag that lets a missing account through
sellerRequiredOutcomeNoFlag(verified, dbUp) ==
    IF ~dbUp
    THEN Stopped("sellerRequired", 500, "Error checking seller status")
    ELSE Passed(verified)

\* dbUp: whether db.user.findUnique resolves (TRUE) or throws (FALSE); reading
\* isSeller of the null it resolves to for a missing account throws as well
sellerRequiredOutcome(verified, dbUp) ==
    IF ~dbUp \/ userById(verified.id) = NoUser
    THEN Stopped("sellerRequired", 500, "Error checking seller status")
    ELSE IF ~userById(verified.id).isSeller
    THEN Stopped("sellerRequired", 403, "Seller privileges required")
    ELSE Passed(verified)

(***************************************************************************)
(* becomeSeller                                                            *)
(***************************************************************************)
\* the fields becomeSeller requires of req.body
BecomeSellerFields == {"businessName", "phoneNumber", "address", "city", "state"}

\* the seller columns written from a body: a field that was sent holds the value
\* sent, the others stay empty
profileOf(sent) ==
    [businessName |-> IF "businessName" \in sent THEN "Pets Ltd" ELSE "",
     phoneNumber  |-> IF "phoneNumber" \in sent THEN "+100" ELSE "",
     address      |-> IF "address" \in sent THEN "1 Main St" ELSE "",
     city         |-> IF "city" \in sent THEN "Lagos" ELSE "",
     state        |-> IF "state" \in sent THEN "LA" ELSE ""]

\* payload[name] of a verified token: undefined (0) when jwt.sign was given no
\* such key
claim(verified, name) == IF name \in DOMAIN verified THEN verified[name] ELSE 0

\* data: { isSeller: true, role: "seller" } on the row of an account
userSetSeller(rows, id) ==
    {IF u.id = id THEN [u EXCEPT !.isSeller = TRUE, !.role = "seller"] ELSE u : u \in rows}

\* db.user.update({ where: { id } }) throws when id is undefined or has no row
userUpdatable(id) == id # 0 /\ userById(id) # NoUser

becomeSellerOutcome(verified, sent) ==
    LET userId == claim(verified, "userId")   \* const userId = req.user.verified.userId
        same   == [res |-> Failure("becomeSeller", 500, "Error updating seller profile"),
                   users |-> users, profiles |-> sellerProfiles]
    IN  IF ~(BecomeSellerFields \subseteq sent)
        THEN [same EXCEPT
                !.res = Failure("becomeSeller", 400, "All required fields must be filled")]
        ELSE IF ~userUpdatable(userId)
        THEN same
        ELSE [res |-> Failure("becomeSeller", 200, "Seller profile created successfully"),
              users |-> userSetSeller(users, userId),
              profiles |-> [sellerProfiles EXCEPT ![userId] = profileOf(sent)]]

\* POST /seller/profile: loginRequired, becomeSeller
becomeSeller(authHeader, sent) ==
    LET auth == loginRequiredOutcome(authHeader)
        out  == becomeSellerOutcome(auth.verified, sent)
    IN  /\ res' = IF auth.next THEN out.res ELSE auth.res
        /\ users' = IF auth.next THEN out.users ELSE users
        /\ sellerProfiles' = IF auth.next THEN out.profiles ELSE sellerProfiles
        /\ UNCHANGED <<now, ticks, env, nextUserId, refreshTokens, unverifiedUsers,
                       passwordResetTokens, products, hist, market, chat, inflight>>

(***************************************************************************)
(* Bodies of the 500 responses                                             *)
(*                                                                         *)
(* nodeEnv is process.env.NODE_ENV, errorMessage the message of the        *)
(* exception that was caught.  A field that is undefined is left out of    *)
(* the JSON body (NoDetail).                                               *)
(***************************************************************************)
NoDetail == ""

\* const isProduction = process.env.NODE_ENV === "production"
\* app.use((err, req, res, next) => res.status(500).json({ ... }))
errorMiddlewareBody(nodeEnv, errorMessage) ==
    LET isProduction == nodeEnv = "production"
    IN  [message |-> "Something went wrong!",
         error   |-> IF ~isProduction THEN errorMessage ELSE NoDetail]

\* the catch of signup
signupErrorBody(nodeEnv, errorMessage) ==
    [message |-> "Error during signup", error |-> errorMessage]

\* the catch of onboardSeller
onboardSellerErrorBody(nodeEnv, errorMessage) ==
    [message |-> "Error during seller onboarding", error |-> errorMessage]

(***************************************************************************)
(* deleteUserAccount                                                       *)
(*                                                                         *)
(* The handler reads the account id from req.user.id and runs four SQL     *)
(* deletes inside db.tx.  helpers/db.js is not among the sources: the      *)
(* client the other handlers use (db.user.update, db.$transaction) has no  *)
(* method tx, so the call either throws (txRuns = FALSE) or, on a client   *)
(* that offers it, runs the callback (txRuns = TRUE).                      *)
(***************************************************************************)
deleteUserAccountOutcome(verified, txRuns) ==
    LET \* req.user as loginRequired leaves it: { verified }
        reqUser   == [verified |-> verified]
        \* const userId = req.user.id: undefined (0) on the object loginRequired built
        userId    == claim(reqUser, "id")
        \* DELETE FROM refresh_tokens WHERE user_id = $1
        rows      == SelectSeq(refreshTokens, LAMBDA r : r.userId # userId)
        \* DELETE FROM sellers WHERE user_id = $1
        profiles  == [id \in DOMAIN sellerProfiles |->
                         IF id = userId THEN NoProfile ELSE sellerProfiles[id]]
        \* SELECT id FROM sellers WHERE user_id = $1, which runs after the
        \* sellers rows of the account are gone
        sellerIds == {id \in DOMAIN profiles : id = userId /\ profiles[id] # NoProfile}
        \* DELETE FROM products WHERE seller_id IN (the seller ids of the account)
        remaining == {p \in products : p.sellerId \notin sellerIds}
        \* DELETE FROM users WHERE id = $1
        kept      == {u \in users : u.id # userId}
    IN  IF ~txRuns
        THEN [res |-> Failure("deleteUserAccount", 500, "Error deleting user account"),
              users |-> users, rows |-> refreshTokens, profiles |-> sellerProfiles,
              products |-> products]
        ELSE [res |-> Failure("deleteUserAccount", 200, "Account deleted successfully"),
              users |-> kept, rows |-> rows,
              profiles |-> profiles, products |-> remaining]

\* DELETE /account: loginRequired, deleteUserAccount
deleteUserAccount(authHeader, txRuns) ==
    LET auth == loginRequiredOutcome(authHeader)
        out  == deleteUserAccountOutcome(auth.verified, txRuns)
    IN  /\ res' = IF auth.next THEN out.res ELSE auth.res
        /\ users' = IF auth.next THEN out.users ELSE users
        /\ refreshTokens' = IF auth.next THEN out.rows ELSE refreshTokens
        /\ sellerProfiles' = IF auth.next THEN out.profiles ELSE sellerProfiles
        /\ products' = IF auth.next THEN out.products ELSE products
        /\ UNCHANGED <<now, ticks, env, nextUserId, unverifiedUsers,
                       passwordResetTokens, hist, market, chat, inflight>>

(***************************************************************************)
(* onboardSeller                                                           *)
(*                                                                         *)
(* req.body.profile and req.body.listing are JSON texts.  A text is        *)
(* unparsable (or absent: JSON.parse(undefined) throws too), the text      *)
(* null, or an object, of which the model keeps the keys with a truthy     *)
(* value.                                                                  *)
(***************************************************************************)
requiredProfileFields == <<"business_name", "contact_phone", "business_address", "city",
                           "state">>

requiredListingFields == <<"product_title", "product_category", "product_brand", "age",
                           "quantity", "weight", "price", "gender">>

fieldsOf(required) == {required[i] : i \in 1..Len(required)}

JsonUnparsable == [kind |-> "unparsable", has |-> {}]

JsonNull == [kind |-> "null", has |-> {}]

JsonObject(has) == [kind |-> "object", has |-> has]

\* JSON.parse(text) returns (TRUE) or throws (FALSE)
jsonParses(text) == text.kind # "unparsable"

\* the first required field for which !data[field], 0 when there is none
firstMissing(data, required) ==
    IF \E i \in 1..Len(required) : required[i] \notin data.has
    THEN CHOOSE i \in 1..Len(required) :
            /\ required[i] \notin data.has
            /\ \A j \in 1..(i - 1) : required[j] \in data.has
    ELSE 0

\* req.files: how many files arrived under each of the two required names
Files(brand, photos) == [brand_image |-> brand, product_photos |-> photos]

\* tx.product.create: the row of the first listing of an account, with the
\* title and the price of the listing the model's clients send
productCreate(rows, sellerId) ==
    rows \cup {[id |-> Cardinality(rows) + 1, sellerId |-> sellerId,
                title |-> "Puppy", price |-> 100]}

\* the seller columns onboardSeller writes from the profile
onboardProfile ==
    [businessName |-> "Pets Ltd", phoneNumber |-> "+100", address |-> "1 Main St",
     city |-> "Lagos", state |-> "LA"]

\* a transaction that keeps the user update when the product insert throws
onboardTransactionNoRollback(userId, insertOk) ==
    IF ~userUpdatable(userId)
    THEN [ok |-> FALSE, users |-> users, profiles |-> sellerProfiles, products |-> products]
    ELSE [ok |-> insertOk,
          users |-> userSetSeller(users, userId),
          profiles |-> [sellerProfiles EXCEPT ![userId] = onboardProfile],
          products |-> IF insertOk THEN productCreate(products, userId) ELSE products]

\* db.$transaction: tx.user.update, then tx.product.create; a throw in either
\* rolls both back.  insertOk: whether tx.product.create resolves
onboardTransaction(userId, insertOk) ==
    IF ~userUpdatable(userId) \/ ~insertOk
    THEN [ok |-> FALSE, users |-> users, profiles |-> sellerProfiles, products |-> products]
    ELSE [ok |-> TRUE,
          users |-> userSetSeller(users, userId),
          profiles |-> [sellerProfiles EXCEPT ![userId] = onboardProfile],
          products |-> productCreate(products, userId)]

onboardSellerOutcome(verified, profile, listing, files, insertOk) ==
    LET userId == claim(verified, "id")
        same   == [res |-> Failure("onboardSeller", 500, "Error during seller onboarding"),
                   users |-> users, profiles |-> sellerProfiles, products |-> products]
        bad(message) == [same EXCEPT !.res = Failure("onboardSeller", 400, message)]
        tx     == onboardTransaction(userId, insertOk)
    IN  IF ~jsonParses(listing) \/ ~jsonParses(profile)
        THEN bad("Invalid JSON data in listing or profile fields")
        ELSE IF profile = JsonNull
        THEN same
        ELSE IF firstMissing(profile, requiredProfileFields) # 0
        THEN bad("Missing required profile field: "
                   \o requiredProfileFields[firstMissing(profile, requiredProfileFields)])
        ELSE IF listing = JsonNull
        THEN same
        ELSE IF firstMissing(listing, requiredListingFields) # 0
        THEN bad("Missing required listing field: "
                   \o requiredListingFields[firstMissing(listing, requiredListingFields)])
        ELSE IF files.brand_image = 0
        THEN bad("Brand image is required")
        ELSE IF files.product_photos = 0
        THEN bad("At least one product photo is required")
        ELSE IF ~tx.ok
        THEN [same EXCEPT !.users = tx.users, !.profiles = tx.profiles,
                          !.products = tx.products]
        ELSE [res |-> Failure("onboardSeller", 200, "Seller onboarding completed successfully"),
              users |-> tx.users, profiles |-> tx.profiles, products |-> tx.products]

\* POST /onboard: loginRequired, uploadFiles, onboardSeller
onboardSeller(authHeader, profile, listing, files, insertOk) ==
    LET auth == loginRequiredOutcome(authHeader)
        out  == onboardSellerOutcome(auth.verified, profile, listing, files, insertOk)
    IN  /\ Cardinality(products) < MaxProducts
        /\ res' = IF auth.next THEN out.res ELSE auth.res
        /\ users' = IF auth.next THEN out.users ELSE users
        /\ sellerProfiles' = IF auth.next THEN out.profiles ELSE sellerProfiles
        /\ products' = IF auth.next THEN out.products ELSE products
        /\ UNCHANGED <<now, ticks, env, nextUserId, refreshTokens, unverifiedUsers,
                       passwordResetTokens, hist, market, chat, inflight>>

(***************************************************************************)
(* updateSellerSecuritySettings                                            *)
(***************************************************************************)
MinPasswordLength == 8

LowerCase == {"a", "b", "c", "d", "e", "f", "g", "h", "i", "j", "k", "l", "m", "n", "o",
              "p", "q", "r", "s", "t", "u", "v", "w", "x", "y", "z"}

UpperCase == {"A", "B", "C", "D", "E", "F", "G", "H", "I", "J", "K", "L", "M", "N", "O",
              "P", "Q", "R", "S", "T", "U", "V", "W", "X", "Y", "Z"}

Digits == {"0", "1", "2", "3", "4", "5", "6", "7", "8", "9"}

\* the characters of the passwords the model sends
passwordText(p) ==
    CASE p = "Secret123!" -> <<"S", "e", "c", "r", "e", "t", "1", "2", "3", "!">>
      [] p = "Other456?"  -> <<"O", "t", "h", "e", "r", "4", "5", "6", "?">>
      [] p = "NewPass1!"  -> <<"N", "e", "w", "P", "a", "s", "s", "1", "!">>
      [] p = "newpass1!"  -> <<"n", "e", "w", "p", "a", "s", "s", "1", "!">>
      [] p = "Ab1!"       -> <<"A", "b", "1", "!">>
      [] OTHER            -> <<>>

\* (?=.*X): some character of the text is in the class
hasCharIn(text, class) == \E i \in 1..Len(text) : text[i] \in class

\* the two tests a new password has to pass: newPassword.length >= 8 and
\* /(?=.*[a-z])(?=.*[A-Z])(?=.*\d)(?=.*[!@#$%^&*])/.test(newPassword)
passwordAccepted(newPassword) ==
    LET text == passwordText(newPassword)
    IN  /\ Len(text) >= MinPasswordLength
        /\ hasCharIn(text, LowerCase)
        /\ hasCharIn(text, UpperCase)
        /\ hasCharIn(text, Digits)
        /\ hasCharIn(text, {"!", "@", "#", "$", "%", "^", "&", "*"})

updateSellerSecuritySettingsOutcome(verified, currentPassword, newPassword) ==
    LET sellerId == claim(verified, "id")
        seller   == userById(sellerId)
        same     == [res |-> Failure("updateSellerSecuritySettings", 500,
                                     "Error updating security settings"),
                     users |-> users]
        bad(message) ==
            [same EXCEPT !.res = Failure("updateSellerSecuritySettings", 400, message)]
        done(rows) ==
            [res |-> Failure("updateSellerSecuritySettings", 200,
                             "Security settings updated successfully"),
             users |-> rows]
    IN  IF newPassword = Missing
        THEN done(users)
        ELSE IF Len(passwordText(newPassword)) < MinPasswordLength
        THEN bad("Password must be at least 8 characters long")
        ELSE IF ~passwordAccepted(newPassword)
        THEN bad("Password must contain uppercase, lowercase, numbers, and special characters")
        ELSE IF seller = NoUser \/ currentPassword = Missing
        THEN same
        ELSE IF ~bcryptCompare(currentPassword, seller.password)
        THEN bad("Current password is incorrect")
        ELSE done(userSetPassword(users, sellerId, bcryptHash(newPassword)))

\* PUT /settings/security: loginRequired, sellerRequired,
\* updateSellerSecuritySettings
updateSellerSecuritySettings(authHeader, dbUp, currentPassword, newPassword) ==
    LET auth   == loginRequiredOutcome(authHeader)
        seller == sellerRequiredOutcome(auth.verified, dbUp)
        out    == updateSellerSecuritySettingsOutcome(seller.verified, currentPassword,
                                                      newPassword)
    IN  /\ res' = IF ~auth.next THEN auth.res
                  ELSE IF ~seller.next THEN seller.res
                  ELSE out.res
        /\ users' = IF auth.next /\ seller.next THEN out.users ELSE users
        /\ UNCHANGED <<now, ticks, env, nextUserId, refreshTokens, unverifiedUsers,
                       passwordResetTokens, shop, hist, market, chat, inflight>>

(***************************************************************************)
(* POST /api/users/login and /register behind preventLoggedUser            *)
(***************************************************************************)
\* the middleware answers, or hands the request to the handler of the route;
\* the handler the route then runs belongs to the user controller
preventLoggedUser(authHeader) ==
    /\ res' = preventLoggedUserOutcome(authHeader).res
    /\ UNCHANGED <<now, ticks, env, users, nextUserId, refreshTokens, unverifiedUsers,
                   passwordResetTokens, shop, hist, market, chat, inflight>>

(***************************************************************************)
(* Products: updateListing and deleteProduct of the seller controller,     *)
(* updateProduct and deleteProduct of the product controller               *)
(*                                                                         *)
(* req.params.id is a text; req.body is handed to Prisma as the update     *)
(* data, a record of the columns to write.                                 *)
(***************************************************************************)
NaN == -1

\* parseInt(text): the leading digits of the text, NaN when there are none
parseInt(text) ==
    CASE text = "1"    -> 1
      [] text = "2"    -> 2
      [] text = "3"    -> 3
      [] text = "2abc" -> 2
      [] OTHER         -> NaN

NoProduct == [id |-> 0, sellerId |-> 0, title |-> "", price |-> 0]

\* prisma.product.findUnique({ where: { id } })
productById(rows, id) ==
    IF \E p \in rows : p.id = id THEN CHOOSE p \in rows : p.id = id ELSE NoProduct

\* an ownership test that lets every account through
ownsProductAlways(product, sellerId) == product # NoProduct

\* the product exists and its sellerId is the id of the authenticated account
ownsProduct(product, sellerId) == product # NoProduct /\ product.sellerId = sellerId

\* product.update({ where: { id }, data }) throws: data names a column other
\* than the ones of Product the model keeps, or a sellerId that is no User row
\* (foreign key)
productUpdateThrows(data) ==
    \/ DOMAIN data \ {"sellerId", "title", "price"} # {}
    \/ "sellerId" \in DOMAIN data /\ userById(data.sellerId) = NoUser

\* product.update({ where: { id }, data }): every column data names is written
productUpdate(rows, id, data) ==
    {IF p.id = id
     THEN [f \in DOMAIN p |-> IF f \in DOMAIN data THEN data[f] ELSE p[f]]
     ELSE p : p \in rows}

\* product.delete({ where: { id } }) throws while a CartItem or an
\* OrderProduct row references the product (ON DELETE RESTRICT)
productDeleteThrows(id) ==
    \/ \E item \in cartItems : item.productId = id
    \/ \E order \in orders : \E line \in order.lines : line.productId = id

\* product.delete({ where: { id } })
productDelete(rows, id) == {p \in rows : p.id # id}

productAnswer(op, status, message, rows) ==
    [res |-> Failure(op, status, message), products |-> rows]

\* seller controller: findFirst({ where: { id, sellerId } }), then update
updateListingOutcome(verified, param, data) ==
    LET sellerId  == claim(verified, "id")
        listingId == parseInt(param)
        listing   == productById(products, listingId)
    IN  IF listingId = NaN
        THEN productAnswer("updateListing", 500, "Error updating listing", products)
        ELSE IF ~ownsProduct(listing, sellerId)
        THEN productAnswer("updateListing", 404, "Listing not found or unauthorized",
                           products)
        ELSE IF productUpdateThrows(data)
        THEN productAnswer("updateListing", 500, "Error updating listing", products)
        ELSE productAnswer("updateListing", 200, "updated",
                           productUpdate(products, listingId, data))

\* seller controller: findFirst({ where: { id, sellerId } }), then delete
sellerDeleteProductOutcome(verified, param) ==
    LET sellerId  == claim(verified, "id")
        productId == parseInt(param)
        product   == productById(products, productId)
    IN  IF productId = NaN
        THEN productAnswer("sellerDeleteProduct", 500, "Error deleting product", products)
        ELSE IF ~ownsProduct(product, sellerId)
        THEN productAnswer("sellerDeleteProduct", 404, "Product not found or unauthorized",
                           products)
        ELSE IF productDeleteThrows(productId)
        THEN productAnswer("sellerDeleteProduct", 500, "Error deleting product", products)
        ELSE productAnswer("sellerDeleteProduct", 200, "Product deleted successfully",
                           productDelete(products, productId))

\* product controller: findUnique({ where: { id } }), 404, 403, then update
updateProductOutcome(verified, param, data) ==
    LET sellerId        == claim(verified, "id")
        productId       == parseInt(param)
        existingProduct == productById(products, productId)
    IN  IF productId = NaN
        THEN productAnswer("updateProduct", 500, "Error updating product", products)
        ELSE IF existingProduct = NoProduct
        THEN productAnswer("updateProduct", 404, "Product not found", products)
        ELSE IF ~ownsProduct(existingProduct, sellerId)
        THEN productAnswer("updateProduct", 403, "You can only update your own products",
                           products)
        ELSE IF productUpdateThrows(data)
        THEN productAnswer("updateProduct", 500, "Error updating product", products)
        ELSE productAnswer("updateProduct", 200, "updated",
                           productUpdate(products, productId, data))

\* product controller: findUnique({ where: { id } }), 404, 403, then delete
deleteProductOutcome(verified, param) ==
    LET sellerId        == claim(verified, "id")
        productId       == parseInt(param)
        existingProduct == productById(products, productId)
    IN  IF productId = NaN
        THEN productAnswer("deleteProduct", 500, "Error deleting product", products)
        ELSE IF existingProduct = NoProduct
        THEN productAnswer("deleteProduct", 404, "Product not found", products)
        ELSE IF ~ownsProduct(existingProduct, sellerId)
        THEN productAnswer("deleteProduct", 403, "You can only delete your own products",
                           products)
        ELSE IF productDeleteThrows(productId)
        THEN productAnswer("deleteProduct", 500, "Error deleting product", products)
        ELSE productAnswer("deleteProduct", 200, "Product deleted successfully",
                           productDelete(products, productId))

\* req.user.verified as the handler behind the two middlewares reads it
routeVerified(authHeader) == loginRequiredOutcome(authHeader).verified

\* a route behind loginRequired and sellerRequired whose handler, when it is
\* reached, answers out and writes table Product
productRoute(authHeader, out) ==
    LET auth   == loginRequiredOutcome(authHeader)
        seller == sellerRequiredOutcome(auth.verified, TRUE)
    IN  /\ res' = IF ~auth.next THEN auth.res
                  ELSE IF ~seller.next THEN seller.res
                  ELSE out.res
        /\ products' = IF auth.next /\ seller.next
                       THEN out.products ELSE products
        /\ UNCHANGED <<now, ticks, env, users, nextUserId, refreshTokens, unverifiedUsers,
                       passwordResetTokens, sellerProfiles, hist, market, chat, inflight>>

\* PUT /api/seller/listings/:id/edit
updateListing(authHeader, param, data) ==
    productRoute(authHeader, updateListingOutcome(routeVerified(authHeader), param, data))

\* DELETE /api/seller/products/:id
sellerDeleteProduct(authHeader, param) ==
    productRoute(authHeader, sellerDeleteProductOutcome(routeVerified(authHeader), param))

\* PUT /api/products/:id
updateProduct(authHeader, param, data) ==
    productRoute(authHeader, updateProductOutcome(routeVerified(authHeader), param, data))

\* DELETE /api/products/:id
deleteProduct(authHeader, param) ==
    productRoute(authHeader, deleteProductOutcome(routeVerified(authHeader), param))

(***************************************************************************)
(* Cart: addToCart, updateCartItem, updateQuantity, initializePayment       *)
(*                                                                         *)
(* req.body is a record of the fields the client sent; a field it did not  *)
(* send is undefined.  A CartItem row carries the account of its cart: the *)
(* Cart row of an account is found by its unique userId.                   *)
(***************************************************************************)
bodyHas(body, name) == name \in DOMAIN body

\* prisma.cartItem.findUnique({ where: { cartId_productId } }): the rows
\* found (at most one, by the unique index on cartId and productId)
cartItemsOf(rows, userId, productId) ==
    {item \in rows : item.userId = userId /\ item.productId = productId}

\* an update that overwrites the quantity with the requested amount
cartItemAddReplacing(rows, found, quantity) ==
    {IF item \in found THEN [item EXCEPT !.quantity = quantity] ELSE item : item \in rows}

\* cartItem.update({ data: { quantity: existingItem.quantity + quantity } })
cartItemAdd(rows, found, quantity) ==
    {IF item \in found THEN [item EXCEPT !.quantity = item.quantity + quantity] ELSE item :
        item \in rows}

\* cartItem.create({ data: { cartId, productId, quantity } }); the id is the
\* next value of the autoincrement of CartItem.id
cartItemCreate(rows, userId, productId, quantity) ==
    LET ids    == {item.id : item \in rows}
        nextId == IF rows = {} THEN 1
                  ELSE 1 + CHOOSE n \in ids : \A id \in ids : id <= n
    IN  rows \cup {[id |-> nextId, userId |-> userId, productId |-> productId,
                    quantity |-> quantity]}

\* cartItem.update({ data: { quantity } }) on the rows found
cartItemSet(rows, found, quantity) ==
    {IF item \in found THEN [item EXCEPT !.quantity = quantity] ELSE item : item \in rows}

cartAnswer(op, status, message, cartRows, itemRows, orderRows) ==
    [res |-> Failure(op, status, message), carts |-> cartRows, cartItems |-> itemRows,
     orders |-> orderRows]

addToCartOutcome(verified, body) ==
    LET userId    == claim(verified, "id")
        quantity  == IF bodyHas(body, "quantity") THEN body.quantity ELSE 1
        productId == IF bodyHas(body, "productId") THEN parseInt(body.productId) ELSE NaN
        \* the cart row is created before the item is looked up
        cartRows  == carts \cup {userId}
        existing  == cartItemsOf(cartItems, userId, productId)
    IN  IF ~bodyHas(body, "productId")
        THEN cartAnswer("addToCart", 400, "Product ID is required", carts, cartItems, orders)
        ELSE IF productId = NaN
        THEN cartAnswer("addToCart", 500, "Error adding to cart", cartRows, cartItems, orders)
        ELSE IF existing # {}
        THEN cartAnswer("addToCart", 200, "updated", cartRows,
                        cartItemAdd(cartItems, existing, quantity), orders)
        ELSE IF productById(products, productId) = NoProduct
        \* cartItem.create violates the foreign key on productId and throws
        THEN cartAnswer("addToCart", 500, "Error adding to cart", cartRows, cartItems, orders)
        ELSE cartAnswer("addToCart", 201, "created", cartRows,
                        cartItemCreate(cartItems, userId, productId, quantity), orders)

\* req.params.itemId, req.body.quantity
updateCartItemOutcome(verified, itemId, body) ==
    LET userId == claim(verified, "id")
        id     == parseInt(itemId)
        found  == {item \in cartItems : item.id = id /\ item.userId = userId}
    IN  IF bodyHas(body, "quantity") /\ body.quantity <= 0
        THEN cartAnswer("updateCartItem", 400, "Quantity must be greater than 0",
                        carts, cartItems, orders)
        ELSE IF id = NaN
        THEN cartAnswer("updateCartItem", 500, "Error updating cart item",
                        carts, cartItems, orders)
        ELSE IF found = {}
        THEN cartAnswer("updateCartItem", 404, "Cart item not found", carts, cartItems, orders)
        ELSE IF ~bodyHas(body, "quantity")
        \* data: { quantity: undefined } writes no column
        THEN cartAnswer("updateCartItem", 200, "updated", carts, cartItems, orders)
        ELSE cartAnswer("updateCartItem", 200, "updated", carts,
                        cartItemSet(cartItems, found, body.quantity), orders)

\* req.params.productId, req.body.quantity
updateQuantityOutcome(verified, productIdParam, body) ==
    LET userId    == claim(verified, "id")
        productId == parseInt(productIdParam)
        found     == cartItemsOf(cartItems, userId, productId)
    IN  IF bodyHas(body, "quantity") /\ body.quantity < 1
        THEN cartAnswer("updateQuantity", 400, "Quantity must be at least 1",
                        carts, cartItems, orders)
        ELSE IF userId \notin carts
        THEN cartAnswer("updateQuantity", 404, "Cart not found", carts, cartItems, orders)
        ELSE IF productId = NaN \/ found = {} \/ ~bodyHas(body, "quantity")
        \* the where clause or parseInt(undefined) is rejected, or no row matches
        THEN cartAnswer("updateQuantity", 500, "Error updating quantity",
                        carts, cartItems, orders)
        ELSE cartAnswer("updateQuantity", 200, "updated", carts,
                        cartItemSet(cartItems, found, body.quantity), orders)

\* cart.items.reduce((sum, item) => sum + item.product.price * item.quantity, 0)
RECURSIVE cartTotal(_)
cartTotal(items) ==
    IF items = {} THEN 0
    ELSE LET item == CHOOSE i \in items : TRUE
         IN  productById(products, item.productId).price * item.quantity
                + cartTotal(items \ {item})

\* an order.create that accepts lines without a price
orderCreateAccepts(lines) == FALSE

\* order.create throws: OrderProduct.price is a required column without a
\* default, and a line that does not carry it is rejected
orderCreateThrows(lines) == \E line \in lines : "price" \notin DOMAIN line

initializePaymentOutcome(verified) ==
    LET userId  == claim(verified, "id")
        items   == {item \in cartItems : item.userId = userId}
        \* cart.items.map(item => ({ productId: item.productId, quantity: item.quantity }))
        lines   == {[productId |-> item.productId, quantity |-> item.quantity] :
                       item \in items}
        orderId == Cardinality(orders) + 1
        \* the order after the update that sets paymentId to the reference
        \* ORDER-${order.id}-${Date.now()} and status to 'processing'
        order   == [id |-> orderId, userId |-> userId, totalPrice |-> cartTotal(items),
                    status |-> "processing", paymentId |-> <<"ORDER", orderId, now>>,
                    lines |-> lines]
    IN  IF userId \notin carts \/ items = {}
        THEN cartAnswer("initializePayment", 400, "Cart is empty", carts, cartItems, orders)
        ELSE IF orderCreateThrows(lines)
        THEN cartAnswer("initializePayment", 500, "Error initializing payment",
                        carts, cartItems, orders)
        ELSE cartAnswer("initializePayment", 200, "paymentData", carts,
                        cartItems \ items, orders \cup {order})

\* a route behind loginRequired whose handler, when it is reached, answers out
\* and writes the cart tables
cartRoute(authHeader, out) ==
    LET auth == loginRequiredOutcome(authHeader)
    IN  /\ res' = IF auth.next THEN out.res ELSE auth.res
        /\ carts' = IF auth.next THEN out.carts ELSE carts
        /\ cartItems' = IF auth.next THEN out.cartItems ELSE cartItems
        /\ orders' = IF auth.next THEN out.orders ELSE orders
        /\ UNCHANGED <<now, ticks, env, users, nextUserId, refreshTokens, unverifiedUsers,
                       passwordResetTokens, shop, hist, chat, inflight>>

\* POST /api/cart/add; every quantity in the cart tables stays within the
\* range the model explores
addToCart(authHeader, body) ==
    /\ \A item \in addToCartOutcome(routeVerified(authHeader), body).cartItems :
          -MaxQuantity <= item.quantity /\ item.quantity <= MaxQuantity
    /\ cartRoute(authHeader, addToCartOutcome(routeVerified(authHeader), body))

\* the handler updateCartItem, behind loginRequired
updateCartItem(authHeader, itemId, body) ==
    cartRoute(authHeader, updateCartItemOutcome(routeVerified(authHeader), itemId, body))

\* PUT /api/cart/:productId
updateQuantity(authHeader, productIdParam, body) ==
    cartRoute(authHeader,
              updateQuantityOutcome(routeVerified(authHeader), productIdParam, body))

\* POST /api/cart/checkout
initializePayment(authHeader) ==
    cartRoute(authHeader, initializePaymentOutcome(routeVerified(authHeader)))

(***************************************************************************)
(* Messages: the handlers of the message controller.  A Conversation row   *)
(* is {id, customerId, sellerId, productId}, a Message row {id,            *)
(* conversationId, senderId, isRead}.                                      *)
(***************************************************************************)
\* a lookup that finds the conversation whoever asks
conversationOfAnyone(rows, id, userId) == {c \in rows : c.id = id}

\* db.conversation.findFirst({ where: { id, OR: [{ customerId: userId },
\* { sellerId: userId }] } }): the rows found
conversationOf(rows, id, userId) ==
    {c \in rows : c.id = id /\ (c.customerId = userId \/ c.sellerId = userId)}

\* db.message.create({ data: { conversationId, senderId, content, ... } })
messageCreate(rows, conversationId, senderId) ==
    rows \cup {[id |-> Cardinality(rows) + 1, conversationId |-> conversationId,
                senderId |-> senderId, isRead |-> FALSE]}

\* db.message.updateMany({ where: { conversationId, senderId: { not: userId },
\* isRead: false }, data: { isRead: true } })
messagesMarkRead(rows, conversationId, userId) ==
    {IF m.conversationId = conversationId /\ m.senderId # userId
     THEN [m EXCEPT !.isRead = TRUE] ELSE m : m \in rows}

\* the response of a handler, the messages it returns, and the tables after it
chatAnswer(op, status, message, returned, convRows, msgRows) ==
    [res |-> Failure(op, status, message), returned |-> returned,
     conversations |-> convRows, messages |-> msgRows]

\* body: { sellerId, productId, initialMessage }, productId or initialMessage
\* left out by some clients
startConversationOutcome(verified, body) ==
    LET userId   == claim(verified, "id")
        seller   == userById(body.sellerId)
        existing == {c \in conversations :
                        /\ c.customerId = userId
                        /\ c.sellerId = body.sellerId
                        /\ c.productId = body.productId}
        created  == [id |-> Cardinality(conversations) + 1, customerId |-> userId,
                     sellerId |-> body.sellerId, productId |-> body.productId]
        found    == IF existing = {} THEN created ELSE CHOOSE c \in existing : TRUE
        same     == chatAnswer("startConversation", 500, "Error starting conversation",
                               {}, conversations, messages)
    IN  IF seller = NoUser \/ ~seller.isSeller
        THEN chatAnswer("startConversation", 404, "Seller not found", {},
                        conversations, messages)
        \* findUnique({ where: { customerId_sellerId_productId: { ..., productId:
        \* productId || null } } }): a compound unique key takes no null
        ELSE IF ~bodyHas(body, "productId")
        THEN same
        \* conversation.create with a productId that is no Product row (foreign key)
        ELSE IF existing = {} /\ productById(products, body.productId) = NoProduct
        THEN same
        ELSE chatAnswer("startConversation", 200, "", {},
                        conversations \cup {found},
                        IF bodyHas(body, "initialMessage")
                        THEN messageCreate(messages, found.id, userId)
                        ELSE messages)

getConversationMessagesOutcome(verified, param) ==
    LET userId         == claim(verified, "id")
        conversationId == parseInt(param)
        found          == conversationOf(conversations, conversationId, userId)
    IN  IF conversationId = NaN
        THEN chatAnswer("getConversationMessages", 500, "Error fetching messages", {},
                        conversations, messages)
        ELSE IF found = {}
        THEN chatAnswer("getConversationMessages", 404, "Conversation not found", {},
                        conversations, messages)
        ELSE chatAnswer("getConversationMessages", 200, "",
                        {m \in messages : m.conversationId = conversationId},
                        conversations,
                        messagesMarkRead(messages, conversationId, userId))

\* body: { conversationId, content }; notified: whether createNotification
\* resolves (TRUE) or throws (FALSE)
sendMessageOutcome(verified, body, notified) ==
    LET userId == claim(verified, "id")
        found  == conversationOf(conversations, body.conversationId, userId)
        sent   == messageCreate(messages, body.conversationId, userId)
    IN  IF found = {}
        THEN chatAnswer("sendMessage", 404, "Conversation not found", {},
                        conversations, messages)
        ELSE IF (\E c \in found : c.sellerId # userId) /\ ~notified
        THEN chatAnswer("sendMessage", 500, "Error sending message", {},
                        conversations, sent)
        ELSE chatAnswer("sendMessage", 200, "", sent \ messages, conversations, sent)

markConversationAsReadOutcome(verified, param) ==
    LET userId         == claim(verified, "id")
        conversationId == parseInt(param)
        found          == conversationOf(conversations, conversationId, userId)
    IN  IF conversationId = NaN
        THEN chatAnswer("markConversationAsRead", 500,
                        "Error marking conversation as read", {}, conversations, messages)
        ELSE IF found = {}
        THEN chatAnswer("markConversationAsRead", 404, "Conversation not found", {},
                        conversations, messages)
        ELSE chatAnswer("markConversationAsRead", 200, "Conversation marked as read", {},
                        conversations,
                        messagesMarkRead(messages, conversationId, userId))

\* a route behind loginRequired whose handler, when it is reached, answers out
\* and writes the message tables
chatRoute(authHeader, out) ==
    LET auth == loginRequiredOutcome(authHeader)
    IN  /\ res' = IF auth.next THEN out.res ELSE auth.res
        /\ conversations' = IF auth.next THEN out.conversations ELSE conversations
        /\ messages' = IF auth.next THEN out.messages ELSE messages
        /\ UNCHANGED <<now, ticks, env, users, nextUserId, refreshTokens, unverifiedUsers,
                       passwordResetTokens, shop, hist, market, inflight>>

\* POST /api/messages/conversations/start; the Message table stays within the
\* size the model explores
startConversation(authHeader, body) ==
    /\ Cardinality(startConversationOutcome(routeVerified(authHeader), body).messages)
          <= MaxMessages
    /\ chatRoute(authHeader, startConversationOutcome(routeVerified(authHeader), body))

\* GET /api/messages/conversations/:conversationId/messages
getConversationMessages(authHeader, param) ==
    chatRoute(authHeader, getConversationMessagesOutcome(routeVerified(authHeader), param))

\* POST /api/messages/send
sendMessage(authHeader, body, notified) ==
    /\ Cardinality(sendMessageOutcome(routeVerified(authHeader), body, notified).messages)
          <= MaxMessages
    /\ chatRoute(authHeader, sendMessageOutcome(routeVerified(authHeader), body, notified))

\* PUT /api/messages/conversations/:conversationId/read
markConversationAsRead(authHeader, param) ==
    chatRoute(authHeader, markConversationAsReadOutcome(routeVerified(authHeader), param))

(***************************************************************************)
(* Requests in flight.  A handler runs without interruption up to its next *)
(* await and is resumed, later, when the awaited query has resolved; the   *)
(* handlers of other requests run in between.  inflight[r] holds the await *)
(* request r is suspended at (pc), what the handler keeps in its local     *)
(* variables, and, once it has answered (pc = "done"), its response.       *)
(***************************************************************************)
\* refreshToken up to await db.refreshToken.findUnique
refreshTokenBegin(r, token) ==
    LET answer(message) == [pc |-> "done", op |-> "refreshToken", arg |-> token,
                            res |-> Failure("refreshToken", 401, message)]
        slot == IF token = NoToken
                THEN answer("No refresh token provided")
                ELSE IF ~jwtVerify(token, env.REFRESH_TOKEN_SECRET)
                THEN answer("Invalid or expired refresh token")
                ELSE [pc |-> "findToken", op |-> "refreshToken", arg |-> token]
    IN  /\ inflight[r].pc = "idle"
        /\ inflight' = [inflight EXCEPT ![r] = slot]
        /\ res' = IF slot.pc = "done" THEN slot.res ELSE res
        /\ UNCHANGED <<now, ticks, env, users, nextUserId, refreshTokens, unverifiedUsers,
                       passwordResetTokens, hist, shop, market, chat>>

\* refreshToken from one await to the next: the stored token is read and
\* compared, the account is read and the new tokens are signed, the row is
\* updated and the response sent
refreshTokenResume(r) ==
    LET token   == inflight[r].arg
        dbToken == refreshRowOf(refreshTokens, token.id)
        user    == userById(token.id)
        answer(status, message) ==
            [pc |-> "done", op |-> "refreshToken", arg |-> token,
             res |-> Failure("refreshToken", status, message)]
        slot == CASE inflight[r].pc = "findToken" ->
                       IF ~storedTokenMatches(dbToken, token)
                       THEN answer(401, "Refresh token not found or does not match")
                       ELSE [inflight[r] EXCEPT !.pc = "findUser"]
                  [] inflight[r].pc = "findUser" ->
                       IF user = NoUser
                       THEN answer(401, "User not found")
                       ELSE [pc |-> "update", op |-> "refreshToken", arg |-> token,
                             newAccessToken  |-> generateToken(claimsOf(user), "access"),
                             newRefreshToken |-> generateToken(claimsOf(user), "refresh")]
                  [] inflight[r].pc = "update" ->
                       \* update({ where: { userId } }) throws when the row is gone
                       IF dbToken = NoRow
                       THEN answer(500, "Error refreshing token")
                       ELSE [pc |-> "done", op |-> "refreshToken", arg |-> token,
                             res |-> Response("refreshToken", 200, "",
                                              inflight[r].newRefreshToken,
                                              inflight[r].newAccessToken)]
    IN  /\ inflight[r].op = "refreshToken"
        /\ inflight[r].pc \in {"findToken", "findUser", "update"}
        /\ inflight' = [inflight EXCEPT ![r] = slot]
        /\ res' = IF slot.pc = "done" THEN slot.res ELSE res
        /\ refreshTokens' = IF inflight[r].pc = "update" /\ dbToken # NoRow
                             THEN refreshUpdate(refreshTokens, token.id,
                                                inflight[r].newRefreshToken)
                             ELSE refreshTokens
        /\ UNCHANGED <<now, ticks, env, users, nextUserId, unverifiedUsers,
                       passwordResetTokens, hist, shop, market, chat>>

\* resetPassword up to await bcrypt.hash
resetPasswordBegin(r, token, newPassword) ==
    LET known     == token \in DOMAIN passwordResetTokens
        tokenData == passwordResetTokens[token]
        isExpired == now - tokenData.createdAt > ResetWindow
        slot == IF ~known \/ isExpired
                THEN [pc |-> "done", op |-> "resetPassword", arg |-> token,
                      res |-> Failure("resetPassword", 400, "Invalid or expired reset link")]
                ELSE [pc |-> "hash", op |-> "resetPassword", arg |-> token,
                      newPassword |-> newPassword, tokenData |-> tokenData]
    IN  /\ inflight[r].pc = "idle"
        /\ inflight' = [inflight EXCEPT ![r] = slot]
        /\ res' = IF slot.pc = "done" THEN slot.res ELSE res
        /\ passwordResetTokens' = IF known /\ isExpired
                                   THEN mapDelete(passwordResetTokens, token)
                                   ELSE passwordResetTokens
        /\ UNCHANGED <<now, ticks, env, users, nextUserId, refreshTokens, unverifiedUsers,
                       hist, shop, market, chat>>

\* resetPassword from one await to the next: the password is hashed, the
\* account updated, the account read and the tokens signed, the refresh token
\* rows updated; then the reset token is deleted and the response sent
resetPasswordResume(r) ==
    LET slot0  == inflight[r]
        userId == slot0.tokenData.userId
        user   == userById(userId)
        answer(res0) == [pc |-> "done", op |-> "resetPassword", arg |-> slot0.arg,
                         res |-> res0]
        failed == answer(Failure("resetPassword", 500, "Error resetting password"))
        slot == CASE slot0.pc = "hash" ->
                       \* bcrypt.hash(undefined, 10) rejects
                       IF slot0.newPassword = Missing THEN failed
                       ELSE [slot0 EXCEPT !.pc = "updateUser"]
                  [] slot0.pc = "updateUser" ->
                       IF user = NoUser THEN failed ELSE [slot0 EXCEPT !.pc = "findUser"]
                  [] slot0.pc = "findUser" ->
                       \* generateToken(null, ...) reads user.id and throws
                       IF user = NoUser THEN failed
                       ELSE [pc |-> "updateMany", op |-> "resetPassword", arg |-> slot0.arg,
                             newPassword |-> slot0.newPassword, tokenData |-> slot0.tokenData,
                             accessToken  |-> generateToken(claimsOf(user), "access"),
                             refreshToken |-> generateToken(claimsOf(user), "refresh")]
                  [] slot0.pc = "updateMany" ->
                       answer(Response("resetPassword", 200, "Password reset successful",
                                       slot0.refreshToken, slot0.accessToken))
    IN  /\ slot0.op = "resetPassword"
        /\ slot0.pc \in {"hash", "updateUser", "findUser", "updateMany"}
        /\ inflight' = [inflight EXCEPT ![r] = slot]
        /\ res' = IF slot.pc = "done" THEN slot.res ELSE res
        /\ users' = IF slot0.pc = "updateUser" /\ user # NoUser
                     THEN userSetPassword(users, userId, bcryptHash(slot0.newPassword))
                     ELSE users
        /\ refreshTokens' = IF slot0.pc = "updateMany"
                             THEN refreshUpdateMany(refreshTokens, userId, slot0.refreshToken)
                             ELSE refreshTokens
        /\ passwordResetTokens' = IF slot0.pc = "updateMany"
                                   THEN resetsAfterReset(passwordResetTokens, slot0.arg)
                                   ELSE passwordResetTokens
        /\ UNCHANGED <<now, ticks, env, nextUserId, unverifiedUsers, hist, shop, market,
                       chat>>

\* POST /api/cart/checkout: loginRequired, then initializePayment up to await
\* prisma.cart.findUnique
initializePaymentBegin(r, authHeader) ==
    LET auth == loginRequiredOutcome(authHeader)
        slot == IF ~auth.next
                THEN [pc |-> "done", op |-> "initializePayment", arg |-> 0, items |-> {},
                      orderId |-> 0, res |-> auth.res]
                ELSE [pc |-> "findCart", op |-> "initializePayment",
                      arg |-> claim(auth.verified, "id"), items |-> {}, orderId |-> 0]
    IN  /\ inflight[r].pc = "idle"
        /\ inflight' = [inflight EXCEPT ![r] = slot]
        /\ res' = IF slot.pc = "done" THEN slot.res ELSE res
        /\ UNCHANGED <<now, ticks, env, users, nextUserId, refreshTokens, unverifiedUsers,
                       passwordResetTokens, hist, shop, market, chat>>

\* initializePayment from one await to the next: the cart is read and the
\* total computed, the order created, the order updated with the payment
\* reference, the cart items deleted and the response sent
initializePaymentResume(r) ==
    LET slot0  == inflight[r]
        userId == slot0.arg
        items  == {item \in cartItems : item.userId = userId}
        lines  == {[productId |-> item.productId, quantity |-> item.quantity] :
                      item \in slot0.items}
        orderId == Cardinality(orders) + 1
        total   == cartTotal(slot0.items)
        answer(status, message) ==
            [slot0 EXCEPT !.pc = "done"] @@ [res |-> Failure("initializePayment", status, message)]
        slot == CASE slot0.pc = "findCart" ->
                       IF userId \notin carts \/ items = {}
                       THEN answer(400, "Cart is empty")
                       ELSE [slot0 EXCEPT !.pc = "createOrder", !.items = items]
                  [] slot0.pc = "createOrder" ->
                       IF orderCreateThrows(lines)
                       THEN answer(500, "Error initializing payment")
                       ELSE [slot0 EXCEPT !.pc = "updateOrder", !.orderId = orderId]
                  [] slot0.pc = "updateOrder" -> [slot0 EXCEPT !.pc = "deleteMany"]
                  [] slot0.pc = "deleteMany" -> answer(200, "paymentData")
    IN  /\ slot0.op = "initializePayment"
        /\ slot0.pc \in {"findCart", "createOrder", "updateOrder", "deleteMany"}
        /\ inflight' = [inflight EXCEPT ![r] = slot]
        /\ res' = IF slot.pc = "done" THEN slot.res ELSE res
        /\ orders' =
              CASE slot0.pc = "createOrder" /\ ~orderCreateThrows(lines) ->
                     orders \cup {[id |-> orderId, userId |-> userId, totalPrice |-> total,
                                   status |-> "pending", paymentId |-> <<>>, lines |-> lines]}
                [] slot0.pc = "updateOrder" ->
                     {IF o.id = slot0.orderId
                      THEN [o EXCEPT !.status = "processing",
                                     !.paymentId = <<"ORDER", o.id, now>>]
                      ELSE o : o \in orders}
                [] OTHER -> orders
        /\ cartItems' = IF slot0.pc = "deleteMany"
                         THEN {item \in cartItems : item.userId # userId}
                         ELSE cartItems
        /\ UNCHANGED <<now, ticks, env, users, nextUserId, refreshTokens, unverifiedUsers,
                       passwordResetTokens, carts, hist, shop, chat>>

(***************************************************************************)
(* The clock, and the system                                               *)
(***************************************************************************)
Tick(d) ==
    /\ ticks < MaxTicks
    /\ now' = now + d
    /\ ticks' = ticks + 1
    /\ UNCHANGED <<env, users, nextUserId, refreshTokens, unverifiedUsers,
                   passwordResetTokens, res, hist, shop, market, chat, inflight>>

\* the token of a verification link a client can follow: one signup stored
\* (the mail may arrive although sendEmail threw), or an unknown string
VerifyInputs == DOMAIN unverifiedUsers \cup {NoToken}

\* the token of a reset link a client can follow, or an unknown string
ResetInputs == DOMAIN passwordResetTokens \cup {NoToken}

\* the values the clock can have taken after at most k advances
RECURSIVE ClockValues(_)
ClockValues(k) ==
    IF k = 0 THEN {0}
    ELSE ClockValues(k - 1) \cup {t + d : t \in ClockValues(k - 1), d \in ClockSteps}

\* what a client can send as the refreshToken cookie: the cookie of the last
\* response, a stored token, a refresh token as the server signs it for an
\* account at a second up to now, a token of another kind, or nothing
CookieInputs ==
    {res.cookie, res.accessToken, NoToken}
    \cup {refreshTokens[i].token : i \in 1..Len(refreshTokens)}
    \cup {jwtSign(claimsOf(u), SigningSecret("refresh"), ExpiresIn("refresh"), t) :
             u \in users, t \in {x \in ClockValues(MaxTicks) : x <= now}}

Init ==
    /\ now = 0
    /\ ticks = 0
    /\ env \in EnvConfigs
    /\ users = {}
    /\ nextUserId = 1
    /\ refreshTokens = <<>>
    /\ unverifiedUsers = EmptyMap
    /\ passwordResetTokens = EmptyMap
    /\ res = Failure("none", 0, "")
    /\ sellerProfiles = [id \in UserIds |-> NoProfile]
    /\ products = {}
    /\ carts = {}
    /\ cartItems = {}
    /\ orders = {}
    /\ conversations = {}
    /\ messages = {}
    /\ inflight = NoRequests
    /\ signedUp = {}
    /\ verifiedTokens = {}
    /\ loginHist = [id \in UserIds |-> <<>>]
    /\ resetHist = [used |-> {}, reused |-> FALSE]

Next ==
    \/ \E e \in Emails \cup {Missing}, p \in SignupPasswords \cup {Missing}, d \in BOOLEAN :
          signup(e, p, d)
    \/ \E t \in VerifyInputs : verifyEmail(t)
    \/ \E e \in Emails, d \in BOOLEAN : forgotPassword(e, d)
    \/ \E t \in ResetInputs, p \in Passwords \cup {Missing} : resetPassword(t, p)
    \/ \E e \in Emails \cup {Missing}, p \in Passwords \cup {Missing} : login(e, p)
    \/ \E t \in CookieInputs : refreshToken(t)
    \/ \E d \in ClockSteps : Tick(d)

Spec == Init /\ [][Next]_vars

\* the auth routes together with the refresh route of the user controller
NextUsers ==
    \/ Next
    \/ \E t \in CookieInputs : usersRefreshToken(t)

SpecUsers == Init /\ [][NextUsers]_vars

\* An account created before the migration that added the isVerified column:
\* the column was added with DEFAULT false, so the row is unverified.
\* the service started on an empty user table, or on one that holds a legacy row
InitLegacy ==
    /\ now = 0
    /\ ticks = 0
    /\ env \in EnvConfigs
    /\ users \in {{}, {[id |-> 1, email |-> CHOOSE e \in Emails : TRUE,
                         password |-> bcryptHash(CHOOSE p \in SignupPasswords : TRUE),
                         role |-> "customer", isSeller |-> FALSE, isVerified |-> FALSE]}}
    /\ nextUserId = Cardinality(users) + 1
    /\ refreshTokens = <<>>
    /\ unverifiedUsers = EmptyMap
    /\ passwordResetTokens = EmptyMap
    /\ res = Failure("none", 0, "")
    /\ sellerProfiles = [id \in UserIds |-> NoProfile]
    /\ products = {}
    /\ carts = {}
    /\ cartItems = {}
    /\ orders = {}
    /\ conversations = {}
    /\ messages = {}
    /\ inflight = NoRequests
    /\ signedUp = {}
    /\ verifiedTokens = {}
    /\ loginHist = [id \in UserIds |-> <<>>]
    /\ resetHist = [used |-> {}, reused |-> FALSE]

SpecLegacy == InitLegacy /\ [][Next]_vars

(***************************************************************************)
(* The same system, observed: each specification below takes the same      *)
(* steps as Spec and records, in a history variable, what its claim is     *)
(* about.                                                                  *)
(***************************************************************************)
signupObserved(email, password, delivered) ==
    /\ signupStep(email, password, delivered)
    /\ signedUp' = signedUp \cup signupOutcome(email, password, delivered).mailed
    /\ UNCHANGED <<verifiedTokens, loginHist, resetHist, shop, market, chat, inflight>>

verifyEmailObserved(token) ==
    /\ verifyEmailStep(token)
    /\ verifiedTokens' = verifiedTokens \cup verifyEmailOutcome(token).verified
    /\ UNCHANGED <<signedUp, loginHist, resetHist, shop, market, chat, inflight>>

NextSignups ==
    \/ \E e \in Emails \cup {Missing}, p \in SignupPasswords \cup {Missing}, d \in BOOLEAN :
          signupObserved(e, p, d)
    \/ \E t \in VerifyInputs : verifyEmailObserved(t)
    \/ \E e \in Emails, d \in BOOLEAN : forgotPassword(e, d)
    \/ \E t \in ResetInputs, p \in Passwords \cup {Missing} : resetPassword(t, p)
    \/ \E e \in Emails \cup {Missing}, p \in Passwords \cup {Missing} : login(e, p)
    \/ \E t \in CookieInputs : refreshToken(t)
    \/ \E d \in ClockSteps : Tick(d)

SpecSignups == Init /\ [][NextSignups]_vars

\* loginHist keeps the last two refresh tokens an account's logins issued
loginObserved(email, password) ==
    /\ loginStep(email, password)
    /\ loginHist' = [id \in UserIds |->
                        LET h     == loginHist[id]
                            token == loginOutcome(email, password).res.cookie
                        IN  IF id \notin loginOutcome(email, password).issued THEN h
                            ELSE IF Len(h) < 2 THEN Append(h, token)
                            ELSE <<h[2], token>>]
    /\ UNCHANGED <<signedUp, verifiedTokens, resetHist, shop, market, chat, inflight>>

NextLogins ==
    \/ \E e \in Emails \cup {Missing}, p \in SignupPasswords \cup {Missing}, d \in BOOLEAN :
          signup(e, p, d)
    \/ \E t \in VerifyInputs : verifyEmail(t)
    \/ \E e \in Emails, d \in BOOLEAN : forgotPassword(e, d)
    \/ \E t \in ResetInputs, p \in Passwords \cup {Missing} : resetPassword(t, p)
    \/ \E e \in Emails \cup {Missing}, p \in Passwords \cup {Missing} :
          loginObserved(e, p)
    \/ \E t \in CookieInputs : refreshToken(t)
    \/ \E d \in ClockSteps : Tick(d)

SpecLogins == Init /\ [][NextLogins]_vars

resetPasswordObserved(token, newPassword) ==
    /\ resetPasswordStep(token, newPassword)
    /\ resetHist' = [used |-> resetHist.used
                                \cup resetPasswordOutcome(token, newPassword).used,
                     reused |-> token \in resetHist.used]
    /\ UNCHANGED <<signedUp, verifiedTokens, loginHist, shop, market, chat, inflight>>

forgotPasswordObserved(email, delivered) ==
    /\ forgotPasswordStep(email, delivered)
    /\ resetHist' = [resetHist EXCEPT !.used = @ \ DOMAIN passwordResetTokens']
    /\ UNCHANGED <<signedUp, verifiedTokens, loginHist, shop, market, chat, inflight>>

\* a client can also follow again the link of a reset it has used
NextResets ==
    \/ \E e \in Emails \cup {Missing}, p \in SignupPasswords \cup {Missing}, d \in BOOLEAN :
          signup(e, p, d)
    \/ \E t \in VerifyInputs : verifyEmail(t)
    \/ \E e \in Emails, d \in BOOLEAN : forgotPasswordObserved(e, d)
    \/ \E t \in ResetInputs \cup resetHist.used, p \in Passwords \cup {Missing} :
          resetPasswordObserved(t, p)
    \/ \E e \in Emails \cup {Missing}, p \in Passwords \cup {Missing} : login(e, p)
    \/ \E t \in CookieInputs : refreshToken(t)
    \/ \E d \in ClockSteps : Tick(d)

SpecResets == Init /\ [][NextResets]_vars

(***************************************************************************)
(* The seller routes with the requests that make accounts and sessions     *)
(***************************************************************************)
\* access tokens as the server signs them for an account: a fresh one, and one
\* as old as the service
SignedAccessTokens ==
    {jwtSign(claimsOf(u), SigningSecret("access"), ExpiresIn("access"), t) :
        u \in users, t \in {0, now}}

\* what a client can put in the Authorization header: nothing, a token the
\* server signed, or the refresh token of its cookie, each sent raw or after
\* "Bearer "
HeaderInputs ==
    {Header(p, t) : p \in {"", BearerPrefix},
                    t \in SignedAccessTokens \cup {res.cookie, NoToken}}

\* the bodies sent with a header to a route behind loginRequired: a request the
\* middleware stops never has its body read, and is sent with one body only
RouteBodies(authHeader, bodies, anyBody) ==
    IF loginRequiredOutcome(authHeader).next THEN bodies ELSE {anyBody}

\* the clock steps that matter to these routes: a second, and the lifetime of
\* an access token
SellerClockSteps == {1, AccessExpiresIn}

\* the passwords a client sends to the security settings
NewPasswords == {"NewPass1!", "Other456?", "newpass1!", "Ab1!"}

CompleteOnboardRequest ==
    [profile |-> JsonObject(fieldsOf(requiredProfileFields)),
     listing |-> JsonObject(fieldsOf(requiredListingFields)),
     files |-> Files(1, 1), insertOk |-> TRUE]

\* the onboarding requests the model sends: the complete one, whose product
\* insert resolves or throws, and the ones with a single defect (a profile or
\* listing text that is unparsable, null or lacks one field; a missing file)
OnboardRequests ==
    {[CompleteOnboardRequest EXCEPT !.profile = p] :
        p \in {JsonUnparsable, JsonNull, JsonObject(fieldsOf(requiredProfileFields)),
               JsonObject(fieldsOf(requiredProfileFields) \ {"city"})}}
    \cup {[CompleteOnboardRequest EXCEPT !.listing = l] :
             l \in {JsonUnparsable, JsonNull, JsonObject(fieldsOf(requiredListingFields)),
                    JsonObject(fieldsOf(requiredListingFields) \ {"price"})}}
    \cup {[CompleteOnboardRequest EXCEPT !.files = f, !.insertOk = ok] :
             f \in {Files(1, 1), Files(0, 1), Files(1, 0)}, ok \in BOOLEAN}

SecurityRequest(dbUp, currentPassword, newPassword) ==
    [dbUp |-> dbUp, currentPassword |-> currentPassword, newPassword |-> newPassword]

\* the requests the model sends to the security settings: every current
\* password with an acceptable new one, every new password with the signup
\* password, and one during which the account lookup of sellerRequired throws
SecurityRequests ==
    {SecurityRequest(TRUE, cur, "NewPass1!") : cur \in Passwords \cup {Missing}}
    \cup {SecurityRequest(TRUE, "Secret123!", new) : new \in NewPasswords \cup {Missing}}
    \cup {SecurityRequest(FALSE, "Secret123!", "NewPass1!")}

NextSeller ==
    \/ \E e \in Emails, p \in SignupPasswords, d \in BOOLEAN : signup(e, p, d)
    \/ \E t \in VerifyInputs : verifyEmail(t)
    \/ \E e \in Emails, p \in Passwords \cup NewPasswords : login(e, p)
    \/ \E h \in HeaderInputs : preventLoggedUser(h)
    \/ \E h \in HeaderInputs :
          \E sent \in RouteBodies(h, {BecomeSellerFields, BecomeSellerFields \ {"state"}},
                               BecomeSellerFields) :
             becomeSeller(h, sent)
    \/ \E h \in HeaderInputs :
          \E r \in RouteBodies(h, OnboardRequests, CompleteOnboardRequest) :
             onboardSeller(h, r.profile, r.listing, r.files, r.insertOk)
    \/ \E h \in HeaderInputs :
          \E r \in RouteBodies(h, SecurityRequests,
                               SecurityRequest(TRUE, "Secret123!", "NewPass1!")) :
             updateSellerSecuritySettings(h, r.dbUp, r.currentPassword, r.newPassword)
    \/ \E h \in HeaderInputs :
          \E txRuns \in RouteBodies(h, BOOLEAN, TRUE) : deleteUserAccount(h, txRuns)
    \/ \E d \in SellerClockSteps : Tick(d)

SpecSeller == Init /\ [][NextSeller]_vars

(***************************************************************************)
(* The product routes, on a database that holds two seller accounts, each  *)
(* with the product its onboarding created.                                *)
(***************************************************************************)
\* two accounts that signed up, verified their address and onboarded
TwoSellers ==
    {[id |-> id, email |-> IF id = 1 THEN "a@x.com" ELSE "b@x.com",
      password |-> bcryptHash(CHOOSE p \in SignupPasswords : TRUE),
      role |-> "seller", isSeller |-> TRUE, isVerified |-> TRUE] : id \in {1, 2}}

InitProducts ==
    /\ now = 0
    /\ ticks = 0
    /\ env \in EnvConfigs
    /\ users = TwoSellers
    /\ nextUserId = Cardinality(TwoSellers) + 1
    /\ refreshTokens = <<>>
    /\ unverifiedUsers = EmptyMap
    /\ passwordResetTokens = EmptyMap
    /\ res = Failure("none", 0, "")
    /\ sellerProfiles = [id \in {u.id : u \in TwoSellers} |-> onboardProfile]
    /\ products = productCreate(productCreate({}, 1), 2)
    /\ carts = {}
    /\ cartItems = {}
    /\ orders = {}
    /\ conversations = {}
    /\ messages = {}
    /\ inflight = NoRequests
    /\ signedUp = {}
    /\ verifiedTokens = {}
    /\ loginHist = [id \in UserIds |-> <<>>]
    /\ resetHist = [used |-> {}, reused |-> FALSE]

\* the Authorization headers sent to the product routes: none, or the access
\* token of an account
ProductHeaders == {NoHeader} \cup {Header(BearerPrefix, t) : t \in SignedAccessTokens}

\* req.params.id: the two products, a product that does not exist, a number
\* followed by letters, and a text that is no number
ProductParams == {"1", "2", "3", "2abc", "abc"}

\* req.body of an update: a new title, a sellerId (own, other, no account),
\* both, and a column Product does not have
UpdateBodies ==
    {[title |-> "Renamed"], [sellerId |-> 1], [sellerId |-> 2], [sellerId |-> 3],
     [title |-> "Renamed", sellerId |-> 2], [bogus |-> 1]}

NextProducts ==
    \/ \E h \in ProductHeaders, id \in ProductParams, data \in UpdateBodies :
          updateListing(h, id, data)
    \/ \E h \in ProductHeaders, id \in ProductParams, data \in UpdateBodies :
          updateProduct(h, id, data)
    \/ \E h \in ProductHeaders, id \in ProductParams : sellerDeleteProduct(h, id)
    \/ \E h \in ProductHeaders, id \in ProductParams : deleteProduct(h, id)
    \/ \E d \in SellerClockSteps : Tick(d)

SpecProducts == InitProducts /\ [][NextProducts]_vars

(***************************************************************************)
(* The cart routes, on the same database: the first account fills its cart *)
(* with the products and checks out.                                       *)
(***************************************************************************)
\* the Authorization headers sent to the cart routes: none, or the access
\* token of the buyer
CartHeaders ==
    {NoHeader} \cup {Header(BearerPrefix, t) : t \in {a \in SignedAccessTokens : a.id = 1}}

\* the quantities a client asks for
QuantityInputs == {-1, 0, 1, 2}

\* req.body of addToCart: the product as the client names it, with a quantity
\* or without one
AddBodies ==
    {[productId |-> id] : id \in {"1", "3", "abc"}}
    \cup {[productId |-> "1", quantity |-> q] : q \in QuantityInputs}
    \cup {[productId |-> "2", quantity |-> 1], [quantity |-> 1]}

\* req.body of the quantity updates
QuantityBodies == {[quantity |-> q] : q \in QuantityInputs} \cup {[note |-> "none"]}

\* req.params.itemId and req.params.productId
CartParams == {"1", "3", "abc"}

NextCart ==
    \/ \E h \in CartHeaders, body \in AddBodies : addToCart(h, body)
    \/ \E h \in CartHeaders, id \in CartParams, body \in QuantityBodies :
          updateCartItem(h, id, body)
    \/ \E h \in CartHeaders, id \in CartParams, body \in QuantityBodies :
          updateQuantity(h, id, body)
    \/ \E h \in CartHeaders : initializePayment(h)

SpecCart == InitProducts /\ [][NextCart]_vars

(***************************************************************************)
(* The message routes, on a database that holds the two sellers, their     *)
(* products, and one customer.                                             *)
(***************************************************************************)
InitChat ==
    /\ now = 0
    /\ ticks = 0
    \* the message routes read JWT_ACCESS_SECRET only
    /\ env \in {c \in EnvConfigs : c.REFRESH_TOKEN_SECRET = Unset}
    /\ users = TwoSellers
                 \cup {[id |-> 3, email |-> "c@x.com",
                        password |-> bcryptHash(CHOOSE p \in SignupPasswords : TRUE),
                        role |-> "customer", isSeller |-> FALSE, isVerified |-> TRUE]}
    /\ nextUserId = Cardinality(TwoSellers) + 2
    /\ refreshTokens = <<>>
    /\ unverifiedUsers = EmptyMap
    /\ passwordResetTokens = EmptyMap
    /\ res = Failure("none", 0, "")
    /\ sellerProfiles = [id \in {u.id : u \in TwoSellers} |-> onboardProfile]
    /\ products = productCreate(productCreate({}, 1), 2)
    /\ carts = {}
    /\ cartItems = {}
    /\ orders = {}
    /\ conversations = {}
    /\ messages = {}
    /\ inflight = NoRequests
    /\ signedUp = {}
    /\ verifiedTokens = {}
    /\ loginHist = [id \in UserIds |-> <<>>]
    /\ resetHist = [used |-> {}, reused |-> FALSE]

\* req.body of startConversation: about product 1 of seller 1, with or without
\* a first message; to an account that is no seller; without a product
StartBodies ==
    {[sellerId |-> 1, productId |-> 1], [sellerId |-> 1, productId |-> 1, initialMessage |-> "hi"],
     [sellerId |-> 3, productId |-> 1], [sellerId |-> 1]}

\* req.body of sendMessage, as the route documents it
SendBodies == {[conversationId |-> id, content |-> "hi"] : id \in {1, 3}}

NextChat ==
    \/ \E h \in ProductHeaders, body \in StartBodies : startConversation(h, body)
    \/ \E h \in ProductHeaders, id \in CartParams : getConversationMessages(h, id)
    \/ \E h \in ProductHeaders, body \in SendBodies, notified \in BOOLEAN :
          sendMessage(h, body, notified)
    \/ \E h \in ProductHeaders, id \in CartParams : markConversationAsRead(h, id)

SpecChat == InitChat /\ [][NextChat]_vars

(***************************************************************************)
(* Requests that overlap, on the same database: the first account logs in, *)
(* asks for a reset link and fills its cart; then two requests are served, *)
(* each suspended at its awaits while the other runs.                      *)
(***************************************************************************)
\* no request has been received yet
quiet == \A r \in Requests : inflight[r].pc = "idle"

NextRace ==
    \/ quiet /\ \E p \in SignupPasswords : login("a@x.com", p)
    \/ quiet /\ forgotPassword("a@x.com", TRUE)
    \/ quiet /\ \E h \in CartHeaders \ {NoHeader} :
                    addToCart(h, [productId |-> "1", quantity |-> 1])
    \/ \E d \in {1} : Tick(d)
    \/ \E r \in Requests, i \in 1..Len(refreshTokens) :
          refreshTokenBegin(r, refreshTokens[i].token)
    \/ \E r \in Requests : refreshTokenResume(r)
    \/ \E r \in Requests, t \in DOMAIN passwordResetTokens, p \in SignupPasswords :
          resetPasswordBegin(r, t, p)
    \/ \E r \in Requests : resetPasswordResume(r)
    \/ \E r \in Requests, h \in CartHeaders : initializePaymentBegin(r, h)
    \/ \E r \in Requests : initializePaymentResume(r)

SpecRace == InitProducts /\ [][NextRace]_vars

(***************************************************************************)
(* Claims                                                                  *)
(***************************************************************************)
\* what refreshToken would answer to token in the current state
refreshStatus(token) == refreshTokenOutcome(token).res.status

\* the token stored for an account
storedToken(rows, userId) == refreshRowOf(rows, userId).token

C4_StoredRefreshAccepted ==
    (/\ res.op \in {"login", "verifyEmail"}
     /\ res.cookie # NoToken
     /\ now < res.cookie.exp
     /\ storedToken(refreshTokens, res.cookie.id) = res.cookie)
        => LET out == refreshTokenOutcome(res.cookie)
           IN  /\ out.res.status = 200
               /\ out.res.accessToken = generateToken(claimsOf(userById(res.cookie.id)),
                                                      "access")
               /\ out.res.cookie = storedToken(out.rows, res.cookie.id)

\* refreshToken would accept the token of the cookie of the last response
cookieAccepted == refreshStatus(res.cookie) = 200

pendingFor(t) == t \in DOMAIN unverifiedUsers \/ now - t.iat > VerificationWindow

C7_BadVerificationRejected ==
    \A t \in VerifyInputs :
        (t \notin DOMAIN unverifiedUsers \/ now - unverifiedUsers[t].createdAt > VerificationWindow)
            => /\ verifyEmailOutcome(t).res.status = 400
               /\ verifyEmailOutcome(t).users = users
               /\ verifyEmailOutcome(t).rows = refreshTokens
               /\ verifyEmailOutcome(t).res.cookie = NoToken
               /\ verifyEmailOutcome(t).res.accessToken = NoToken

\* verifyEmail has refused an expired link, and no account exists
C7_Witness ==
    /\ res.op = "verifyEmail" /\ res.status = 400
    /\ res.message = "Verification link has expired"
    /\ users = {}

\* C8: a successful verifyEmail creates the account with isVerified = TRUE,
\* stores its refresh token and deletes the pending record, so that the same
\* token sent again is answered 400 and creates no second account.
C8_VerificationTokenSingleUse ==
    [][\A t \in VerifyInputs :
          (verifyEmail(t) /\ res'.status = 302)
              => /\ \E u \in users' \ users :
                        /\ u.isVerified
                        /\ storedToken(refreshTokens', u.id) = res'.cookie
                 /\ t \notin DOMAIN unverifiedUsers'
                 /\ verifyEmailOutcome(t)'.res.status = 400
                 /\ verifyEmailOutcome(t)'.users = users']_vars

VerifiedClaims == {t \in SignedAccessTokens : jwtVerify(t, env.JWT_ACCESS_SECRET)}

\* profile texts: unparsable, null, and the objects lacking at most one field
ProfileTexts ==
    {JsonUnparsable, JsonNull, JsonObject(fieldsOf(requiredProfileFields))}
    \cup {JsonObject(fieldsOf(requiredProfileFields) \ {f}) :
             f \in fieldsOf(requiredProfileFields)}

\* listing texts: unparsable, null, and the objects lacking at most one field
ListingTexts ==
    {JsonUnparsable, JsonNull, JsonObject(fieldsOf(requiredListingFields))}
    \cup {JsonObject(fieldsOf(requiredListingFields) \ {f}) :
             f \in fieldsOf(requiredListingFields)}

FileCounts == {Files(b, p) : b \in 0..1, p \in 0..2}

\* a validation step of onboardSeller has something to object to
onboardInvalid(profile, listing, files) ==
    \/ ~jsonParses(profile) \/ ~jsonParses(listing)
    \/ ~(fieldsOf(requiredProfileFields) \subseteq profile.has)
    \/ ~(fieldsOf(requiredListingFields) \subseteq listing.has)
    \/ files.brand_image = 0 \/ files.product_photos = 0

\* C11: onboardSeller, sent a request that fails a validation step (unparsable
\* profile or listing, a required profile or listing field missing, no brand
\* image, no product photo), answers 400 with a message and writes nothing:
\* the accounts and the products are as before.
C11_InvalidOnboardingRejected ==
    \A v \in VerifiedClaims, profile \in ProfileTexts, listing \in ListingTexts,
       files \in FileCounts, insertOk \in BOOLEAN :
        onboardInvalid(profile, listing, files)
            => LET out == onboardSellerOutcome(v, profile, listing, files, insertOk)
               IN  /\ out.res.status = 400
                   /\ out.res.message # ""
                   /\ out.users = users
                   /\ out.profiles = sellerProfiles
                   /\ out.products = products

\* the account has the seller flag and the seller role
isSellerAccount(id) == userById(id).isSeller /\ userById(id).role = "seller"

\* every product belongs to an account that has the seller flag and role
productsHaveSellers == \A p \in products : isSellerAccount(p.sellerId)

\* C12: onboardSeller either answers 200, creates exactly one product owned by
\* the authenticated account and sets that account's isSeller and role, or
\* writes nothing at all (also when the product insert throws): it never sets
\* the seller flag without creating the product, and every product belongs to
\* an account with the flag.
C12_OnboardingAllOrNothing ==
    /\ productsHaveSellers
    /\ \A v \in VerifiedClaims, r \in OnboardRequests :
          LET out == onboardSellerOutcome(v, r.profile, r.listing, r.files, r.insertOk)
          IN  \/ /\ out.res.status = 200
                 /\ \E p \in out.products :
                       /\ p \notin products
                       /\ out.products = products \cup {p}
                       /\ p.sellerId = v.id
                 /\ \E u \in out.users : u.id = v.id /\ u.isSeller /\ u.role = "seller"
              \/ /\ out.res.status # 200
                 /\ out.users = users
                 /\ out.profiles = sellerProfiles
                 /\ out.products = products

\* onboarding has succeeded: the account is a seller and owns a product
C12_Witness ==
    /\ res.op = "onboardSeller" /\ res.status = 200
    /\ \E p \in products : isSellerAccount(p.sellerId)

\* the headers the middleware is examined with: every token under every
\* prefix, "Basic " being a scheme the middleware does not know
AllHeaders ==
    {Header(p, t) : p \in {"", BearerPrefix, "Basic "},
                    t \in SignedAccessTokens
                          \cup {res.cookie, res.accessToken, MalformedToken, NoToken}}

\* the header carries, raw or after "Bearer ", a token that verifies against
\* the access-token secret
carriesValidAccessToken(h) ==
    /\ h.prefix \in {"", BearerPrefix}
    /\ jwtVerify(h.token, env.JWT_ACCESS_SECRET)

\* C13: loginRequired calls the next handler exactly when the Authorization
\* header carries, raw or after "Bearer ", a token that verifies against the
\* access-token secret, and then hands it the verified claims; in every other
\* case the next handler is not called.
C13_LoginRequiredFailsClosed ==
    \A h \in AllHeaders :
        /\ loginRequiredOutcome(h).next <=> carriesValidAccessToken(h)
        /\ loginRequiredOutcome(h).next
              => loginRequiredOutcome(h).verified = h.token
        /\ ~loginRequiredOutcome(h).next
              => /\ loginRequiredOutcome(h).res.op = "loginRequired"
                 /\ loginRequiredOutcome(h).res.status >= 400

\* a handler behind loginRequired has answered, and an expired token of the
\* same account would be stopped
C13_Witness ==
    /\ res.op = "onboardSeller"
    /\ \E t \in SignedAccessTokens : ~jwtVerify(t, env.JWT_ACCESS_SECRET)

\* C14: loginRequired answers 401 when the Authorization header is absent and
\* when the token it carries is invalid, expired or tampered.
C14_LoginRequiredAnswers401 ==
    \A h \in AllHeaders :
        ~carriesValidAccessToken(h) => loginRequiredOutcome(h).res.status = 401

\* C15: preventLoggedUser calls the next handler when no Authorization header
\* is sent, and answers 401 without calling it when the header carries a valid
\* access token, raw or after "Bearer ".
C15_PreventLoggedUserRejectsSessions ==
    \A h \in AllHeaders :
        /\ h = NoHeader => preventLoggedUserOutcome(h).next
        /\ carriesValidAccessToken(h)
              => /\ ~preventLoggedUserOutcome(h).next
                 /\ preventLoggedUserOutcome(h).res.status = 401

\* the claims sellerRequired is examined with: those of the accounts, and
\* those of an account that has no row
SellerClaims == SignedAccessTokens \cup {[MalformedToken EXCEPT !.id = Cardinality(UserIds) + 1]}

\* C16: sellerRequired calls the next handler exactly when the account lookup
\* resolves to an account with isSeller = TRUE; it answers 403 when the
\* account's isSeller is FALSE and 500 when the lookup throws.
C16_SellerRequiredChecksFlag ==
    \A v \in SellerClaims, dbUp \in BOOLEAN :
        LET out  == sellerRequiredOutcome(v, dbUp)
            user == userById(v.id)
        IN  /\ out.next <=> (dbUp /\ user # NoUser /\ user.isSeller)
            /\ (dbUp /\ user # NoUser /\ ~user.isSeller) => out.res.status = 403
            /\ ~dbUp => out.res.status = 500
            /\ out.next => out.verified = v

\* sellerRequired has turned an account without the flag away
C16_Witness ==
    /\ res.op = "sellerRequired" /\ res.status = 403

\* the bodies becomeSeller is examined with: every subset of the required fields
BecomeSellerBodies == SUBSET BecomeSellerFields

\* C17: becomeSeller, called with the verified claims of an access token the
\* auth controller issued and with all five required fields, answers 200 and
\* sets isSeller, role and the seller fields on that account in one update;
\* with a required field missing it answers 400 and changes nothing.
C17_BecomeSellerUpdatesAccount ==
    \A v \in VerifiedClaims, sent \in BecomeSellerBodies :
        LET out == becomeSellerOutcome(v, sent)
        IN  IF BecomeSellerFields \subseteq sent
            THEN /\ out.res.status = 200
                 /\ \E u \in out.users : u.id = v.id /\ u.isSeller /\ u.role = "seller"
                 /\ out.profiles[v.id] = profileOf(sent)
            ELSE /\ out.res.status = 400
                 /\ out.users = users
                 /\ out.profiles = sellerProfiles

\* login(email, password) answers 200 with an access token that verifies and
\* whose claims are the id and the email of the account numbered id
loginReturnsTokenOf(email, password, id) ==
    LET out == loginOutcome(email, password)
    IN  /\ out.res.status = 200
        /\ jwtVerify(out.res.accessToken, env.JWT_ACCESS_SECRET)
        /\ out.res.accessToken.id = id
        /\ out.res.accessToken.email = email
        /\ userByEmail(email).id = id

UnknownEmail == "nobody@x.com"

\* login(email, password) is refused: the account is unknown, unverified, or
\* the password is not the one its hash was computed from
loginRefused(email, password) ==
    LET user == userByEmail(email)
    IN  \/ user = NoUser
        \/ ~user.isVerified
        \/ user.password # bcryptHash(password)

\* C19: login with an unknown email, a wrong password, or an account whose
\* email is not verified responds 401, issues no access or refresh token, and
\* leaves the stored refresh tokens unchanged.
C19_RefusedLoginIssuesNothing ==
    \A e \in Emails \cup {UnknownEmail}, p \in Passwords :
        loginRefused(e, p) =>
            LET out == loginOutcome(e, p)
            IN  /\ out.res.status = 401
                /\ out.res.accessToken = NoToken
                /\ out.res.cookie = NoToken
                /\ out.rows = refreshTokens
                /\ out.issued = {}

\* a login with the right password refused because the account is unverified
C19_Witness ==
    /\ res.op = "login"
    /\ res.status = 401
    /\ \E u \in users, p \in Passwords :
          ~u.isVerified /\ u.password = bcryptHash(p) /\ res = loginOutcome(u.email, p).res

\* the verified claims of the accounts sellerRequired lets through
PassedSellerClaims == {v \in VerifiedClaims : sellerRequiredOutcome(v, TRUE).next}

\* the strength policy as stated: length at least 8, a lowercase letter, an
\* uppercase letter, a digit and a character that is neither letter nor digit
meetsPasswordPolicy(newPassword) ==
    LET text == passwordText(newPassword)
    IN  /\ Len(text) >= MinPasswordLength
        /\ hasCharIn(text, LowerCase)
        /\ hasCharIn(text, UpperCase)
        /\ hasCharIn(text, Digits)
        /\ \E i \in 1..Len(text) : text[i] \notin LowerCase \cup UpperCase \cup Digits

\* C20: updateSellerSecuritySettings changes the stored password only when
\* newPassword meets the strength policy and currentPassword matches the
\* stored hash; in every other case it responds 400 and the stored password
\* is unchanged.
C20_PasswordChangeNeedsPolicyAndMatch ==
    \A v \in PassedSellerClaims, cur \in Passwords \cup {Missing},
       new \in NewPasswords \cup {Missing} :
        LET out     == updateSellerSecuritySettingsOutcome(v, cur, new)
            allowed == /\ meetsPasswordPolicy(new)
                       /\ cur # Missing
                       /\ userById(v.id).password = bcryptHash(cur)
        IN  /\ out.users # users => allowed
            /\ ~allowed => out.res.status = 400 /\ out.users = users

\* the four kinds of token generateToken is called with
TokenKinds == {"access", "refresh", "verification", "reset"}

\* C21: generateToken signs the four token kinds with pairwise distinct
\* secrets, so a token issued for one kind never verifies as a token of
\* another kind.
C21_TokenKindsHaveDistinctSecrets ==
    \A k1, k2 \in TokenKinds :
        k1 # k2 =>
            /\ SigningSecret(k1) # SigningSecret(k2)
            /\ \A u \in users \cup {NoUser} :
                  ~jwtVerify(generateToken(claimsOf(u), k1), SigningSecret(k2))

emailsUnique(rows) == \A u1, u2 \in rows : u1.email = u2.email => u1 = u2

\* C23: no two accounts ever share an email under any interleaving of signup
\* and verifyEmail requests: signup for a registered email responds 400 and
\* stores no pending record, and verifying any pending record, also a second
\* one for the same email, leaves at most one account per email.
C23_AccountEmailsUnique ==
    /\ emailsUnique(users)
    /\ \A e \in Emails, p \in SignupPasswords, d \in BOOLEAN :
          userByEmail(e) # NoUser =>
              /\ signupOutcome(e, p, d).res.status = 400
              /\ signupOutcome(e, p, d).pending = unverifiedUsers
    /\ \A t \in DOMAIN unverifiedUsers : emailsUnique(verifyEmailOutcome(t).users)

\* two pending signups of one email, one of them verified into the account,
\* and a verification that was refused because the account exists
C23_Witness ==
    /\ res.op = "verifyEmail"
    /\ res.status = 500
    /\ \E t1, t2 \in DOMAIN unverifiedUsers :
          /\ t1 # t2
          /\ unverifiedUsers[t1].email = unverifiedUsers[t2].email
          /\ userByEmail(unverifiedUsers[t1].email) # NoUser

\* C24: forgotPassword's response (status and body) is the same whether or not
\* the submitted email belongs to a registered account, in every outcome of
\* the email sender.
C24_ForgotPasswordHidesAccounts ==
    \A e1, e2 \in Emails \cup {UnknownEmail}, delivered \in BOOLEAN :
        forgotPasswordOutcome(e1, delivered).res = forgotPasswordOutcome(e2, delivered).res

\* the values NODE_ENV is deployed with, Unset among them
NodeEnvs == {"development", "production", "test", Unset}

\* messages of exceptions a handler can catch
ErrorMessages == {"connect ECONNREFUSED", "Unique constraint failed on the fields: email"}

\* C25: when a handler fails with a persistence or unexpected exception, the
\* 500 response carries the underlying error message only in development mode;
\* outside development mode the body contains no error detail.
C25_ErrorDetailOnlyInDevelopment ==
    \A nodeEnv \in NodeEnvs, m \in ErrorMessages :
        nodeEnv # "development" =>
            /\ errorMiddlewareBody(nodeEnv, m).error = NoDetail
            /\ (res.op = "signup" /\ res.status = 500)
                  => signupErrorBody(nodeEnv, m).error = NoDetail
            /\ (res.op = "onboardSeller" /\ res.status = 500)
                  => onboardSellerErrorBody(nodeEnv, m).error = NoDetail

\* the answers of the four product handlers to one request of an account
productOutcomes(v, param, data) ==
    {updateListingOutcome(v, param, data), updateProductOutcome(v, param, data),
     sellerDeleteProductOutcome(v, param), deleteProductOutcome(v, param)}

\* C26: updateListing, updateProduct and deleteProduct change or delete a
\* Product only when its sellerId equals the authenticated account's id; for a
\* product owned by another account they respond 404 or 403 and leave the
\* product unchanged.
C26_OnlyOwnerChangesProduct ==
    \A v \in VerifiedClaims, param \in ProductParams, data \in UpdateBodies :
        \A out \in productOutcomes(v, param, data) :
            /\ \A p \in products : p.sellerId # v.id => p \in out.products
            /\ LET target == productById(products, parseInt(param))
               IN  (target # NoProduct /\ target.sellerId # v.id) =>
                       /\ out.res.status \in {403, 404}
                       /\ out.products = products

\* a seller asked to change the product of another seller and was refused
C26_Witness ==
    /\ res.op = "updateProduct"
    /\ res.status = 403
    /\ \E p \in products, u \in users : p.sellerId # u.id /\ u.isSeller

\* C27: a Product's sellerId never changes after creation: no updateListing or
\* updateProduct request by its owner, with any request body, transfers the
\* product to another account.
C27_SellerIdNeverChanges ==
    [][\A p \in products : \A q \in products' : q.id = p.id => q.sellerId = p.sellerId]_vars

\* no cart holds two items for one product
noDuplicateItems(rows) ==
    \A i, j \in rows : (i.userId = j.userId /\ i.productId = j.productId) => i = j

\* the amount a body of addToCart asks for
requestedAmount(body) == IF "quantity" \in DOMAIN body THEN body.quantity ELSE 1

\* C28: addToCart for a product already in the user's cart increases that
\* item's quantity by the requested amount, and otherwise creates the item
\* with that quantity; a cart never contains two items for the same product.
C28_AddToCartMergesItems ==
    /\ noDuplicateItems(cartItems)
    /\ \A v \in VerifiedClaims :
          \A body \in {b \in AddBodies : "productId" \in DOMAIN b} :
              LET out       == addToCartOutcome(v, body)
                  productId == parseInt(body.productId)
                  existing  == {i \in cartItems : i.userId = v.id /\ i.productId = productId}
              IN  /\ noDuplicateItems(out.cartItems)
                  /\ existing # {} =>
                        /\ out.res.status = 200
                        /\ out.cartItems =
                              (cartItems \ existing)
                              \cup {[i EXCEPT !.quantity = i.quantity + requestedAmount(body)] :
                                       i \in existing}
                  /\ (existing = {} /\ \E p \in products : p.id = productId) =>
                        /\ out.res.status = 201
                        /\ \E new \in out.cartItems :
                              /\ new \notin cartItems
                              /\ out.cartItems = cartItems \cup {new}
                              /\ new.userId = v.id
                              /\ new.productId = productId
                              /\ new.quantity = requestedAmount(body)

\* an addToCart that found the product in the cart and raised its quantity
C28_Witness ==
    /\ res.op = "addToCart"
    /\ res.status = 200
    /\ \E i \in cartItems : i.quantity > 1
    /\ Cardinality(cartItems) > 1

\* C29: every cart item's quantity is at least 1 after any sequence of
\* addToCart, updateQuantity and updateCartItem requests.
C29_QuantityAtLeastOne == \A item \in cartItems : item.quantity >= 1

\* C30: initializePayment on a missing or empty cart responds 400 and creates
\* no order; on a non-empty cart it creates one order whose totalPrice is the
\* sum of price times quantity over the cart's items and whose lines match the
\* items, sets it to 'processing' with a payment reference, and leaves the
\* cart empty.
C30_CheckoutCreatesOrder ==
    \A v \in VerifiedClaims :
        LET out   == initializePaymentOutcome(v)
            items == {i \in cartItems : i.userId = v.id}
        IN  IF items = {}
            THEN out.res.status = 400 /\ out.orders = orders
            ELSE /\ \E order \in out.orders :
                       /\ order \notin orders
                       /\ out.orders = orders \cup {order}
                       /\ order.userId = v.id
                       /\ order.totalPrice = cartTotal(items)
                       /\ {[productId |-> l.productId, quantity |-> l.quantity] :
                              l \in order.lines}
                            = {[productId |-> i.productId, quantity |-> i.quantity] :
                                 i \in items}
                       /\ order.status = "processing"
                       /\ order.paymentId # <<>>
                 /\ \A i \in out.cartItems : i.userId # v.id

\* C35: preventLoggedUser never calls the next handler (login, register) when
\* an Authorization header is sent; a header that carries an invalid or
\* expired token is answered 400.
C35_PreventLoggedUserStopsEveryHeader ==
    \A h \in AllHeaders :
        h # NoHeader
           => /\ ~preventLoggedUserOutcome(h).next
              /\ ~jwtVerify(h.token, env.JWT_ACCESS_SECRET)
                    => preventLoggedUserOutcome(h).res.status = 400

\* the middleware has answered 400 to a header it was sent
C35_Witness ==
    /\ res.op = "preventLoggedUser" /\ res.status = 400
    /\ \E h \in AllHeaders :
          /\ h # NoHeader
          /\ h.token # NoToken
          /\ ~jwtVerify(h.token, env.JWT_ACCESS_SECRET)

\* C36: a signup that answers with an error leaves the pending-verification
\* map as it was; when the email sender fails and signup answers 500, no
\* record of that request is kept.
C36_FailedSignupKeepsNoRecord ==
    \A e \in Emails \cup {Missing}, p \in SignupPasswords \cup {Missing}, d \in BOOLEAN :
        signupOutcome(e, p, d).res.status >= 400
           => signupOutcome(e, p, d).pending = unverifiedUsers

\* C37: refreshToken of the user controller is all-or-nothing: when it does
\* not answer with a new token, the refresh tokens stored are the ones stored
\* before, so the presented token is still valid.
C37_FailedRefreshKeepsToken ==
    \A t \in CookieInputs :
        usersRefreshTokenOutcome(t).res.status >= 400
           => usersRefreshTokenOutcome(t).rows = refreshTokens

\* C32: getConversationMessages, sendMessage and markConversationAsRead act
\* only for the customer or the seller of the conversation: to any other
\* authenticated account they answer 404, return no message, create no
\* message and change no read flag.
C32_OnlyParticipantsReachConversation ==
    \A v \in VerifiedClaims, c \in conversations :
        v.id \notin {c.customerId, c.sellerId}
           => /\ \A p \in ProductParams :
                    parseInt(p) = c.id
                       => /\ getConversationMessagesOutcome(v, p).res.status = 404
                          /\ getConversationMessagesOutcome(v, p).returned = {}
                          /\ getConversationMessagesOutcome(v, p).messages = messages
                          /\ markConversationAsReadOutcome(v, p).res.status = 404
                          /\ markConversationAsReadOutcome(v, p).messages = messages
              /\ \A notified \in BOOLEAN :
                    LET out == sendMessageOutcome(v, [conversationId |-> c.id, content |-> "hi"],
                                                  notified)
                    IN  /\ out.res.status = 404
                        /\ out.returned = {}
                        /\ out.messages = messages

\* a request was answered 404 while a conversation holds an unread message and
\* an account that is neither its customer nor its seller exists
C32_Witness ==
    /\ res.status = 404
    /\ res.op \in {"getConversationMessages", "sendMessage", "markConversationAsRead"}
    /\ \E c \in conversations, u \in users, m \in messages :
          /\ u.id \notin {c.customerId, c.sellerId}
          /\ m.conversationId = c.id
          /\ ~m.isRead

C34_ResetTokenUsedOnce ==
    \A r1, r2 \in Requests :
        (/\ r1 # r2
         /\ inflight[r1].op = "resetPassword" /\ inflight[r1].pc = "done"
         /\ inflight[r2].op = "resetPassword" /\ inflight[r2].pc = "done"
         /\ inflight[r1].arg = inflight[r2].arg)
        => (inflight[r1].res.status = 200 => inflight[r2].res.status = 400)

====
